---------------------------- MODULE Spec2Model ----------------------------
(***************************************************************************)
(* A model of the agatedb core: the SST block and table iterators          *)
(* (src/src/table/iterator.rs), the level handler and levels controller    *)
(* (src/src/levels.rs) and the write-ahead log (src/src/wal.rs).           *)
(*                                                                         *)
(* Bytes are small naturals, byte strings are sequences of them.  Each     *)
(* subsystem has its own specification over the one set of variables; the  *)
(* variables of the other subsystems stay at their initial value.          *)
(***************************************************************************)
EXTENDS Integers, Sequences, FiniteSets, TLC

VARIABLES
    \* ---- table iterator (iterator.rs) ----
    it,         \* the table Iterator: table, bpos, block_iterator, err, opt
    lastop,     \* the last public call a specification made, and its arguments
    \* ---- levels controller (levels.rs) ----
    levels,     \* LevelsController.levels: per level, tables and total_size
    lock,       \* the RwLock of each level: its readers and its writer
    rd,         \* the threads inside LevelsController::get
    ad,         \* the threads inside LevelsController::add_l0_table
    next_file_id, \* LevelsController.next_file_id
    ids,        \* the reserve_file_id calls: fetch log, pending and returned ids
    \* ---- write-ahead log (wal.rs) ----
    file,       \* the log file on disk: its bytes (shared with the mapping)
    wal,        \* the open Wal: mmap length, write_at, size; or closed
    written,    \* the entries passed to write_entry, in order
    witer       \* the WalIterator: cursor position, entries yielded, finished

vars == <<it, lastop, levels, lock, rd, ad, next_file_id, ids,
          file, wal, written, witer>>

tableVars == <<it, lastop>>
levelVars == <<levels, lock, rd, ad>>
idVars == <<next_file_id, ids>>
walVars == <<file, wal, written, witer>>

-----------------------------------------------------------------------------
(* Bounds of the model. *)

\* versions (timestamps) of stored keys range over 1..MaxVersion
MaxVersion == 2
\* a table of the table-iterator specification holds at most this many entries
MaxTableKeys == 3
\* the levels of the lookup specification hold at most this many tables in all
MaxLevelTables == 2

-----------------------------------------------------------------------------
(* Byte strings *)

Min(a, b) == IF a < b THEN a ELSE b

\* BytesMut::truncate(n): no effect when n is not below the length
Truncate(s, n) == IF n >= Len(s) THEN s ELSE SubSeq(s, 1, n)

\* the Rust slice s[from..to] (0-based, half open)
Slice(s, from, to) == SubSeq(s, from + 1, to)

RECURSIVE LexCmp(_, _)
\* Ord for byte slices: -1 Less, 0 Equal, 1 Greater
LexCmp(a, b) ==
    IF a = <<>> /\ b = <<>> THEN 0
    ELSE IF a = <<>> THEN -1
    ELSE IF b = <<>> THEN 1
    ELSE IF Head(a) < Head(b) THEN -1
    ELSE IF Head(a) > Head(b) THEN 1
    ELSE LexCmp(Tail(a), Tail(b))

RECURSIVE BigEndian(_)
\* a byte string read as a big-endian unsigned integer
BigEndian(s) ==
    IF s = <<>> THEN 0
    ELSE BigEndian(SubSeq(s, 1, Len(s) - 1)) * 256 + s[Len(s)]

\* key_with_ts: the user key followed by the 8-byte big-endian version
\* (versions of the model are below 256, so seven bytes are zero)
KeyWithTs(u, ts) == u \o <<0, 0, 0, 0, 0, 0, 0, ts>>

UserKey(k) == SubSeq(k, 1, Len(k) - 8)

\* get_ts: the trailing 8 bytes as a version, 0 for a key shorter than 8 bytes
GetTs(k) == IF Len(k) < 8 THEN 0 ELSE BigEndian(SubSeq(k, Len(k) - 7, Len(k)))

\* compare_key: user keys lexicographically, then the larger version first
CompareKey(a, b) ==
    IF Len(a) < 8 \/ Len(b) < 8 THEN LexCmp(a, b)
    ELSE LET c == LexCmp(UserKey(a), UserKey(b)) IN
         IF c # 0 THEN c
         ELSE IF GetTs(a) > GetTs(b) THEN -1
         ELSE IF GetTs(a) < GetTs(b) THEN 1
         ELSE 0

\* same_key: equality of the user keys
SameKey(a, b) ==
    IF Len(a) < 8 \/ Len(b) < 8 THEN a = b ELSE UserKey(a) = UserKey(b)

-----------------------------------------------------------------------------
(* Values and blocks *)

\* Value: meta, user_meta, expires_at, version and the payload `value`
MkValue(meta, version, payload) ==
    [meta |-> meta, user_meta |-> 0, expires_at |-> 0, version |-> version,
     value |-> payload]

\* the encoded value stored in a block entry
EncodeValue(v) == <<v.meta, v.user_meta, v.expires_at, v.version>> \o v.value

\* Value::decode of the raw value bytes of an entry
DecodeValue(bytes) ==
    [meta |-> bytes[1], user_meta |-> bytes[2], expires_at |-> bytes[3],
     version |-> bytes[4], value |-> SubSeq(bytes, 5, Len(bytes))]

\* a test that takes no value for a tombstone
NeverTombstone(v) == FALSE

\* a tombstone: empty payload and zero meta (levels.rs, line 151)
IsTombstone(v) == v.value = <<>> /\ v.meta = 0

RECURSIVE CommonPrefix(_, _)
CommonPrefix(a, b) ==
    IF a = <<>> \/ b = <<>> \/ Head(a) # Head(b) THEN 0
    ELSE 1 + CommonPrefix(Tail(a), Tail(b))

\* the table builder: entry i of a block is (overlap, diff, value), overlap
\* being the length of the prefix its key shares with the block's base key;
\* the first entry has overlap 0 and carries the base key as its diff
BuildBlock(kvs) ==
    [i \in 1..Len(kvs) |->
        LET ov == IF i = 1 THEN 0 ELSE CommonPrefix(kvs[1].key, kvs[i].key) IN
        [overlap |-> ov,
         diff |-> SubSeq(kvs[i].key, ov + 1, Len(kvs[i].key)),
         val |-> EncodeValue(kvs[i].value)]]

\* the full key of entry i of a block, as the builder saw it
EntryKey(block, i) == SubSeq(block[1].diff, 1, block[i].overlap) \o block[i].diff

\* usize::MAX, the idx a block iterator takes when it leaves the block
\* backwards.  A usize of the top of the range is written as a negative
\* number: -1 is usize::MAX, -2 is usize::MAX - 1.
UsizeMax == -1

\* a < b and a >= b for such usize values
ULt(a, b) == IF (a < 0) = (b < 0) THEN a < b ELSE b < 0
UGe(a, b) == ~ULt(a, b)

\* BlockIterator::new
NewBlockIterator(block) ==
    [idx |-> 0, base_key |-> <<>>, key |-> <<>>, val |-> <<>>, data |-> block,
     block |-> block, perv_overlap |-> 0, err |-> "None"]

\* BlockIterator::set_block
SetBlock(bi, block) ==
    [bi EXCEPT !.err = "None", !.idx = 0, !.base_key = <<>>,
               !.perv_overlap = 0, !.key = <<>>, !.val = <<>>,
               !.data = block, !.block = block]

\* set_idx without the copy from base_key when the overlap grows
SetIdxNoExtend(bi, i) ==
    IF UGe(i, Len(bi.block))
    THEN [bi EXCEPT !.idx = i, !.err = "EOF"]
    ELSE LET e == bi.data[i + 1] IN
         [bi EXCEPT !.idx = i, !.err = "None",
                    !.base_key = IF bi.base_key = <<>> THEN bi.data[1].diff
                                 ELSE bi.base_key,
                    !.perv_overlap = e.overlap,
                    !.key = Truncate(bi.key, e.overlap) \o e.diff,
                    !.val = e.val]

\* BlockIterator::set_idx; i is 0-based, entry i is data[i + 1]
SetIdx(bi, i) ==
    IF UGe(i, Len(bi.block))
    THEN [bi EXCEPT !.idx = i, !.err = "EOF"]
    ELSE LET base == IF bi.base_key = <<>> THEN bi.data[1].diff ELSE bi.base_key
             e == bi.data[i + 1]
             k1 == IF e.overlap > bi.perv_overlap
                   THEN Truncate(bi.key, bi.perv_overlap)
                        \o Slice(base, bi.perv_overlap, e.overlap)
                   ELSE bi.key
         IN [bi EXCEPT !.idx = i, !.err = "None", !.base_key = base,
                       !.perv_overlap = e.overlap,
                       !.key = Truncate(k1, e.overlap) \o e.diff,
                       !.val = e.val]

\* the closure BlockIterator::seek hands to util::search
SeekProbe(bi, idx, key, start_index) ==
    IF ULt(idx, start_index) THEN [bi |-> bi, ok |-> FALSE]
    ELSE LET b2 == SetIdx(bi, idx) IN
         [bi |-> b2, ok |-> CompareKey(b2.key, key) # -1]

RECURSIVE BlockSearch(_, _, _, _, _)
\* util::search(n, f) with f the probe above: the binary search keeps [i, j)
\* and threads the iterator through the probes
BlockSearch(bi, i, j, key, start_index) ==
    IF i >= j THEN [bi |-> bi, found |-> i]
    ELSE LET h == (i + j) \div 2
             p == SeekProbe(bi, h, key, start_index)
         IN IF p.ok THEN BlockSearch(p.bi, i, h, key, start_index)
            ELSE BlockSearch(p.bi, h + 1, j, key, start_index)

\* seek without its last line: the iterator stays on the last probed entry
SetFoundLastProbe(r) == [r.bi EXCEPT !.idx = r.found]

\* the last line of BlockIterator::seek: set_idx(found_entry_idx)
SetFound(r) == SetIdx(r.bi, r.found)

\* BlockIterator::seek(key, whence); whence is "Origin" or "Current"
BlockSeek(bi, key, whence) ==
    SetFound(BlockSearch([bi EXCEPT !.err = "None"], 0, Len(bi.block), key,
                         IF whence = "Origin" THEN 0 ELSE bi.idx))

\* a seek_to_first that lands on the second entry
BlockSeekToSecond(bi) == SetIdx(bi, 1)

\* BlockIterator::seek_to_first
BlockSeekToFirst(bi) == SetIdx(bi, 0)

\* BlockIterator::seek_to_last
BlockSeekToLast(bi) ==
    IF Len(bi.block) = 0 THEN [bi EXCEPT !.idx = UsizeMax, !.err = "EOF"]
    ELSE SetIdx(bi, Len(bi.block) - 1)

\* a next that leaves the block with idx = usize::MAX, as prev does
BlockNextToMax(bi) ==
    IF bi.idx + 1 >= Len(bi.block) THEN [bi EXCEPT !.idx = UsizeMax, !.err = "EOF"]
    ELSE SetIdx(bi, bi.idx + 1)

\* BlockIterator::next
BlockNext(bi) == SetIdx(bi, bi.idx + 1)

\* BlockIterator::prev
BlockPrev(bi) ==
    IF bi.idx = 0 THEN [bi EXCEPT !.idx = UsizeMax, !.err = "EOF"]
    ELSE SetIdx(bi, bi.idx - 1)

-----------------------------------------------------------------------------
(* Table iterator *)

ITERATOR_REVERSED == 2

\* the iterator has no block iterator yet (Option::None)
NoBlockIterator == [none |-> TRUE]

\* TableInner: its blocks, and the block indices whose load fails
MkTable(blocks, bad) == [blocks |-> blocks, bad |-> bad]

\* TableInner::offsets_length
OffsetsLength(t) == Len(t.blocks)

\* TableInner::offsets(idx).key: the first key of block idx (0-based)
OffsetKey(t, idx) == EntryKey(t.blocks[idx + 1], 1)

\* TableInner::block(idx, use_cache): the block, or an error when the index is
\* out of range or the read fails
BlockLoads(t, idx) == idx >= 0 /\ idx < Len(t.blocks) /\ idx \notin t.bad

\* Iterator::new
NewIterator(t, opt) ==
    [table |-> t, bpos |-> 0, block_iterator |-> NoBlockIterator,
     err |-> "None", opt |-> opt, panicked |-> FALSE]

Reversed(i) == (i.opt \div ITERATOR_REVERSED) % 2 = 1

\* Iterator::valid
Valid(i) == i.err = "None"

\* Option::unwrap of the block iterator panics on None
Panic(i) == [i EXCEPT !.panicked = TRUE]

\* Iterator::get_block_iterator
GetBlockIterator(i, block) ==
    IF i.block_iterator = NoBlockIterator THEN NewBlockIterator(block)
    ELSE SetBlock(i.block_iterator, block)

\* the block iterator call made on a freshly loaded block
Position(b0, how, key) ==
    CASE how = "first" -> BlockSeekToFirst(b0)
      [] how = "last" -> BlockSeekToLast(b0)
      [] OTHER -> BlockSeek(b0, key, "Origin")

\* the iterator takes the block iterator and a clone of its error
WithBlockIterator(i, b1) == [i EXCEPT !.block_iterator = b1, !.err = b1.err]

\* the match on table.block(bpos) shared by seek_to_first, seek_to_last,
\* seek_helper, next_inner and prev_inner: `how` names the block iterator call
LoadBlock(i, how, key) ==
    IF BlockLoads(i.table, i.bpos)
    THEN WithBlockIterator(i, Position(GetBlockIterator(i, i.table.blocks[i.bpos + 1]),
                                       how, key))
    ELSE [i EXCEPT !.err = "Error"]

\* Iterator::reset
Reset(i) == [i EXCEPT !.bpos = 0, !.err = "None"]

\* Iterator::seek_to_first
SeekToFirst(i) ==
    IF OffsetsLength(i.table) = 0 THEN [i EXCEPT !.err = "EOF"]
    ELSE LoadBlock([i EXCEPT !.bpos = 0], "first", <<>>)

\* Iterator::seek_to_last
SeekToLast(i) ==
    IF OffsetsLength(i.table) = 0 THEN [i EXCEPT !.err = "EOF"]
    ELSE LoadBlock([i EXCEPT !.bpos = OffsetsLength(i.table) - 1], "last", <<>>)

\* Iterator::seek_helper
SeekHelper(i, block_idx, key) ==
    LoadBlock([i EXCEPT !.bpos = block_idx], "seek", key)

RECURSIVE OffsetSearch(_, _, _, _)
\* util::search over the block index: the first block whose first key is
\* not below the key, found by binary search on [lo, hi)
OffsetSearch(t, lo, hi, key) ==
    IF lo >= hi THEN lo
    ELSE LET h == (lo + hi) \div 2 IN
         IF CompareKey(OffsetKey(t, h), key) # -1
         THEN OffsetSearch(t, lo, h, key)
         ELSE OffsetSearch(t, h + 1, hi, key)

\* seek_from without the fall back to block idx when block idx - 1 is exhausted
SeekNoFallback(i1, idx, key) == i1

\* the end of seek_from: block idx - 1 reported EOF and idx is in range, so
\* the iterator falls back to block idx
SeekFallback(i1, idx, key) ==
    IF i1.err = "EOF" /\ idx # OffsetsLength(i1.table)
    THEN SeekHelper(i1, idx, key)
    ELSE i1

\* seek_from once the binary search has found idx
SeekFromIdx(i0, idx, key) ==
    IF idx = 0 THEN SeekHelper(i0, 0, key)
    ELSE SeekFallback(SeekHelper(i0, idx - 1, key), idx, key)

\* Iterator::seek_from
SeekFrom(i, key, whence) ==
    SeekFromIdx(IF whence = "Origin" THEN Reset(i) ELSE [i EXCEPT !.err = "None"],
                OffsetSearch(i.table, 0, OffsetsLength(i.table), key), key)

\* Iterator::seek_inner
SeekInner(i, key) == SeekFrom(i, key, "Origin")

RECURSIVE NextInner(_)
\* Iterator::next_inner
NextInner(i) ==
    LET i0 == [i EXCEPT !.err = "None"] IN
    IF i.bpos < 0 \/ i.bpos > OffsetsLength(i.table) THEN [i0 EXCEPT !.err = "EOF"]
    ELSE IF i.block_iterator = NoBlockIterator THEN Panic(i0)
    ELSE IF i.block_iterator.data = <<>> THEN LoadBlock(i0, "first", <<>>)
    ELSE LET bi == BlockNext(i.block_iterator) IN
         IF bi.err = "None" THEN [i0 EXCEPT !.block_iterator = bi]
         ELSE NextInner([i0 EXCEPT !.bpos = i.bpos + 1,
                                   !.block_iterator = [bi EXCEPT !.data = <<>>]])

RECURSIVE PrevInner(_)
\* Iterator::prev_inner
PrevInner(i) ==
    LET i0 == [i EXCEPT !.err = "None"] IN
    IF i.bpos < 0 THEN [i0 EXCEPT !.err = "EOF"]
    ELSE IF i.block_iterator = NoBlockIterator THEN Panic(i0)
    ELSE IF i.block_iterator.data = <<>> THEN LoadBlock(i0, "last", <<>>)
    ELSE LET bi == BlockPrev(i.block_iterator) IN
         IF bi.err = "None" THEN [i0 EXCEPT !.block_iterator = bi]
         ELSE PrevInner([i0 EXCEPT !.bpos = i.bpos - 1,
                                   !.block_iterator = [bi EXCEPT !.data = <<>>]])

\* Iterator::key
IterKey(i) == i.block_iterator.key

\* Iterator::value
IterValue(i) == DecodeValue(i.block_iterator.val)

\* seek_for_prev without the step back
SeekForPrevNoStep(i1, key) == i1

\* seek_for_prev after its seek_from: step back unless key() is the key
SeekForPrevStep(i1, key) ==
    IF i1.block_iterator = NoBlockIterator THEN Panic(i1)
    ELSE IF IterKey(i1) # key THEN PrevInner(i1)
    ELSE i1

\* Iterator::seek_for_prev
SeekForPrev(i, key) == SeekForPrevStep(SeekFrom(i, key, "Origin"), key)

\* Iterator::next
IterNext(i) == IF ~Reversed(i) THEN NextInner(i) ELSE PrevInner(i)

\* Iterator::prev
IterPrev(i) == IF ~Reversed(i) THEN PrevInner(i) ELSE NextInner(i)

\* Iterator::rewind
Rewind(i) == IF ~Reversed(i) THEN SeekToFirst(i) ELSE SeekToLast(i)

\* Iterator::seek
IterSeek(i, key) == IF ~Reversed(i) THEN SeekInner(i, key) ELSE SeekForPrev(i, key)

-----------------------------------------------------------------------------
(* The tables of the model *)

\* user keys; <<1>> is a prefix of <<1, 1>>
UserKeys == {<<1>>, <<1, 1>>}

\* the internal keys a table may store
StoredKeys == {KeyWithTs(u, ts) : u \in UserKeys, ts \in 1..MaxVersion}

\* the value stored under an internal key: its version and a payload naming it
StoredValue(k) == MkValue(0, GetTs(k), UserKey(k) \o <<GetTs(k)>>)

\* the least key of a non-empty set under compare_key
MinKey(S) == CHOOSE k \in S : \A o \in S : CompareKey(k, o) # 1

RECURSIVE SortKeys(_)
\* the keys of a set in increasing compare_key order
SortKeys(S) ==
    IF S = {} THEN <<>> ELSE <<MinKey(S)>> \o SortKeys(S \ {MinKey(S)})

RECURSIVE SplitBlocks(_, _, _)
\* the builder cutting a sorted run of entries into blocks: a new block starts
\* after each position in cuts; `from` is the first position of the open block
SplitBlocks(kvs, cuts, from) ==
    LET later == {c \in cuts : c >= from} IN
    IF from > Len(kvs) THEN <<>>
    ELSE IF later = {} THEN <<BuildBlock(SubSeq(kvs, from, Len(kvs)))>>
    ELSE LET c == CHOOSE x \in later : \A y \in later : x <= y IN
         <<BuildBlock(SubSeq(kvs, from, c))>> \o SplitBlocks(kvs, cuts, c + 1)

\* the table the builder makes of the entries m (a function from keys to
\* values), cut into blocks at cuts
BuildTableKV(m, cuts, bad) ==
    LET ks == SortKeys(DOMAIN m)
        kvs == [n \in 1..Len(ks) |-> [key |-> ks[n], value |-> m[ks[n]]]]
    IN MkTable(SplitBlocks(kvs, cuts, 1), bad)

\* the table the builder makes of the stored keys S
BuildTable(S, cuts, bad) == BuildTableKV([k \in S |-> StoredValue(k)], cuts, bad)

\* every table of at most MaxTableKeys stored keys, in every cutting into
\* blocks, with at most one block that fails to load
TablePool ==
    UNION { UNION { { BuildTable(S, cuts, bad) :
                        bad \in {{}} \cup {{b} : b \in 0..Cardinality(cuts)} } :
                    cuts \in SUBSET (1..(Cardinality(S) - 1)) } :
            S \in {X \in SUBSET StoredKeys : Cardinality(X) <= MaxTableKeys} }

\* the keys a caller seeks: the stored keys and the versions around them
\* (version MaxVersion + 1 of the least user key is below every stored key,
\* version 0 of the greatest is above every stored key)
SeekKeys == {KeyWithTs(u, ts) : u \in UserKeys, ts \in 0..(MaxVersion + 1)}

\* all keys of a table, block after block
TableKeys(t) ==
    UNION { {EntryKey(t.blocks[b], e) : e \in 1..Len(t.blocks[b])} :
            b \in 1..Len(t.blocks) }

-----------------------------------------------------------------------------
(* Level handler and levels controller *)

\* opts.max_levels
MaxLevels == 3

\* opts.num_level_zero_tables_stall
NumLevelZeroTablesStall == 2

\* Table::size
TableSize(t) == Cardinality(TableKeys(t))

\* Option<Value>
None == [some |-> FALSE]
Some(v) == [some |-> TRUE, v |-> v]

\* LevelHandler::new
NewLevelHandler == [tables |-> <<>>, total_size |-> 0]

\* LevelsController::new: the levels vector
NewLevels == [l \in 1..MaxLevels |-> NewLevelHandler]

\* try_add_l0_table with an off-by-one stall test
TryAddL0TableAboveStall(h, t) ==
    IF Len(h.tables) > NumLevelZeroTablesStall THEN [h |-> h, ok |-> FALSE]
    ELSE [h |-> [tables |-> Append(h.tables, t),
                 total_size |-> h.total_size + TableSize(t)],
          ok |-> TRUE]

\* LevelHandler::try_add_l0_table: the handler afterwards and the result
TryAddL0Table(h, t) ==
    IF Len(h.tables) >= NumLevelZeroTablesStall THEN [h |-> h, ok |-> FALSE]
    ELSE [h |-> [tables |-> Append(h.tables, t),
                 total_size |-> h.total_size + TableSize(t)],
          ok |-> TRUE]

\* the merged cursor over the children ch: the valid child with the least
\* key, the earlier child on equal keys; invalid when no child is valid
MergeTop(ch) ==
    LET live == {n \in DOMAIN ch : Valid(ch[n])} IN
    IF live = {} THEN [valid |-> FALSE]
    ELSE LET top == CHOOSE n \in live : \A m \in live :
                        LET c == CompareKey(IterKey(ch[n]), IterKey(ch[m])) IN
                        c = -1 \/ (c = 0 /\ n <= m)
         IN [valid |-> TRUE, key |-> IterKey(ch[top]), value |-> IterValue(ch[top])]

\* MergeIterator::seek over the forward iterators of the tables: every child
\* seeks the key
MergeSeek(tables, key) ==
    MergeTop([n \in 1..Len(tables) |-> IterSeek(NewIterator(tables[n], 0), key)])

\* the child the merged cursor stands on: the valid child with the least key,
\* the earlier child on equal keys (0 when no child is valid)
TopChild(ch) ==
    LET live == {n \in DOMAIN ch : Valid(ch[n])} IN
    IF live = {} THEN 0
    ELSE CHOOSE n \in live : \A m \in live :
             LET c == CompareKey(IterKey(ch[n]), IterKey(ch[m])) IN
             c = -1 \/ (c = 0 /\ n <= m)

\* a next() that advances the top child only
MergeNextTopOnly(ch, top) ==
    [n \in DOMAIN ch |-> IF n = top THEN IterNext(ch[n]) ELSE ch[n]]

\* MergeIterator::next with the merged cursor on child top: every valid child
\* whose key shares the user-key of the top child's key is advanced
MergeNext(ch, top) ==
    [n \in DOMAIN ch |->
        IF Valid(ch[n]) /\ SameKey(IterKey(ch[n]), IterKey(ch[top]))
        THEN IterNext(ch[n]) ELSE ch[n]]

\* MergeIterator::seek: every child seeks the key
MergeSeekAll(ch, key) == [n \in DOMAIN ch |-> IterSeek(ch[n], key)]

\* a handler that would also filter by version
HandlerAnswerSameVersion(iter, key) ==
    IF ~iter.valid THEN None
    ELSE IF iter.key # key THEN None
    ELSE Some(iter.value)

\* the end of LevelHandler::get: the checks made on the merge iterator
HandlerAnswer(iter, key) ==
    IF ~iter.valid THEN None
    ELSE IF ~SameKey(key, iter.key) THEN None
    ELSE Some(iter.value)

\* LevelHandler::get
LevelHandlerGet(h, key) ==
    IF h.tables = <<>> THEN None
    ELSE HandlerAnswer(MergeSeek(h.tables, key), key)

\* an RwLock: the threads holding a read guard and the thread holding the
\* write guard
NoThread == "none"
FreeLock == [readers |-> {}, writer |-> NoThread]
CanRead(lk) == lk.writer = NoThread
CanWrite(lk) == lk.writer = NoThread /\ lk.readers = {}

\* a read guard that would outlive its match
KeepRead(lk, r, l) == lk

\* a read guard of level l (1-based) is taken by, and dropped by, thread r
AcquireRead(lk, r, l) == [lk EXCEPT ![l].readers = @ \cup {r}]
ReleaseRead(lk, r, l) == [lk EXCEPT ![l].readers = @ \ {r}]

\* the levels whose read guard thread r holds
ReadHeld(r) == {l \in 1..MaxLevels : r \in lock[l].readers}

\* a match that would return any value that is not a tombstone
GetArmAnyVersion(res, version) ==
    IF ~res.some THEN [go |-> "continue"]
    ELSE IF IsTombstone(res.v) THEN [go |-> "continue"]
    ELSE [go |-> "return", v |-> res.v]

\* the match of LevelsController::get on one handler's answer: "return" with
\* the value, or "continue" to the next level
GetArm(res, version) ==
    IF ~res.some THEN [go |-> "continue"]
    ELSE IF IsTombstone(res.v) THEN [go |-> "continue"]
    ELSE IF res.v.version = version THEN [go |-> "return", v |-> res.v]
    ELSE [go |-> "continue"]

\* a thread outside LevelsController::get
IdleReader ==
    [pc |-> "idle", key |-> <<>>, start_level |-> 0, level |-> 0,
     seen |-> <<>>, result |-> None, dirty |-> FALSE]

\* get(key, max_value, start_level) is called: the for loop starts at level 0
GetCall(r, key, start_level) ==
    /\ rd[r].pc \in {"idle", "done"}
    /\ rd' = [rd EXCEPT ![r] = [IdleReader EXCEPT !.pc = "loop", !.key = key,
                                                 !.start_level = start_level]]
    /\ UNCHANGED <<levels, lock, ad>>

\* the caller's max_value
MaxValue == MkValue(9, 0, <<9>>)

\* the for loop skips the levels below start_level and takes the read guard of
\* the next level, or runs out of levels and returns max_value
GetLoop(r) ==
    /\ rd[r].pc = "loop"
    /\ LET lv == IF rd[r].level < rd[r].start_level THEN rd[r].start_level
                 ELSE rd[r].level
       IN IF lv >= MaxLevels
          THEN /\ rd' = [rd EXCEPT ![r].pc = "done", ![r].level = MaxLevels,
                                   ![r].result = Some(MaxValue)]
               /\ UNCHANGED lock
          ELSE /\ CanRead(lock[lv + 1])
               /\ lock' = AcquireRead(lock, r, lv + 1)
               /\ rd' = [rd EXCEPT ![r].pc = "locked", ![r].level = lv]
    /\ UNCHANGED <<levels, ad>>

\* the match of get on the handler's answer res; the read guard is dropped
\* when the match ends
GetMatched(r, res) ==
    LET lv == rd[r].level
        arm == GetArm(res, GetTs(rd[r].key))
        seen == Append(rd[r].seen, [level |-> lv, res |-> res])
    IN /\ lock' = ReleaseRead(lock, r, lv + 1)
       /\ IF arm.go = "return"
          THEN rd' = [rd EXCEPT ![r].pc = "done", ![r].seen = seen,
                                ![r].result = Some(arm.v)]
          ELSE rd' = [rd EXCEPT ![r].pc = "loop", ![r].seen = seen,
                                ![r].level = lv + 1]

\* under the read guard: handler.get(key) and the match on its answer
GetMatch(r) ==
    /\ rd[r].pc = "locked"
    /\ GetMatched(r, LevelHandlerGet(levels[rd[r].level + 1], rd[r].key))
    /\ UNCHANGED <<levels, ad>>

\* every reader sees that the levels changed since its call
MarkDirty(readers) == [r \in DOMAIN readers |-> [readers[r] EXCEPT !.dirty = TRUE]]

\* a writer (the compactor, or the loader of the levels) adds table t to
\* level l (1-based) under that level's write guard
WriterInstall(l, t) ==
    /\ CanWrite(lock[l])
    /\ levels' = [levels EXCEPT ![l] = [tables |-> Append(@.tables, t),
                                        total_size |-> @.total_size + TableSize(t)]]
    /\ rd' = MarkDirty(rd)
    /\ UNCHANGED <<lock, ad>>

\* s without its n-th element
RemoveAt(s, n) == SubSeq(s, 1, n - 1) \o SubSeq(s, n + 1, Len(s))

\* a writer (the compactor) removes the n-th table of level l under that
\* level's write guard
WriterRemove(l, n) ==
    /\ CanWrite(lock[l])
    /\ n \in 1..Len(levels[l].tables)
    /\ levels' = [levels EXCEPT ![l] =
                    [tables |-> RemoveAt(@.tables, n),
                     total_size |-> @.total_size - TableSize(@.tables[n])]]
    /\ rd' = MarkDirty(rd)
    /\ UNCHANGED <<lock, ad>>

\* a write guard that would outlive the while condition
KeepWrite(lk, a, l) == lk

\* the write guard of level l (1-based) is taken by, and dropped by, thread a
AcquireWrite(lk, a, l) == [lk EXCEPT ![l].writer = a]
ReleaseWrite(lk, a, l) == [lk EXCEPT ![l].writer = NoThread]

\* a thread outside LevelsController::add_l0_table; appended counts how often
\* the call has pushed its table, stalled tells that the call was refused
IdleAdder ==
    [pc |-> "idle", table |-> MkTable(<<>>, {}), appended |-> 0, stalled |-> FALSE]

\* add_l0_table(table) is called; the while loop is about to test its condition
AddCall(a, t) ==
    /\ ad[a].pc \in {"idle", "done"}
    /\ ad' = [ad EXCEPT ![a] = [IdleAdder EXCEPT !.pc = "try", !.table = t]]
    /\ UNCHANGED <<levels, lock, rd>>

\* the while condition: self.levels[0].write()?
AddLock(a) ==
    /\ ad[a].pc = "try"
    /\ CanWrite(lock[1])
    /\ lock' = AcquireWrite(lock, a, 1)
    /\ ad' = [ad EXCEPT ![a].pc = "locked"]
    /\ UNCHANGED <<levels, rd>>

\* a loop that would leave on the first attempt, whatever it returned
LeaveLoop(ok) == "done"

\* the while loop: leaves with Ok(()) when the attempt returned true, else
\* runs its body
WhileLoop(ok) == IF ok THEN "done" ELSE "sleep"

\* the adder after an attempt with result res
AfterAttempt(c, res) ==
    [c EXCEPT !.pc = WhileLoop(res.ok),
              !.appended = IF res.ok THEN @ + 1 ELSE @,
              !.stalled = IF res.ok THEN @ ELSE TRUE]

\* the attempt with result res; the write guard, a temporary of the while
\* condition, is dropped when the condition has been evaluated
Attempted(a, res) ==
    /\ levels' = [levels EXCEPT ![1] = res.h]
    /\ lock' = ReleaseWrite(lock, a, 1)
    /\ ad' = [ad EXCEPT ![a] = AfterAttempt(ad[a], res)]
    /\ rd' = IF res.ok THEN MarkDirty(rd) ELSE rd

\* the while condition: try_add_l0_table(table.clone()) under the write guard
AddTry(a) ==
    /\ ad[a].pc = "locked"
    /\ Attempted(a, TryAddL0Table(levels[1], ad[a].table))

\* the loop body: println!("L0 stalled") and sleep(10 ms), then the condition
\* is tested again
AddWake(a) ==
    /\ ad[a].pc = "sleep"
    /\ ad' = [ad EXCEPT ![a].pc = "try"]
    /\ UNCHANGED <<levels, lock, rd>>

-----------------------------------------------------------------------------
(* The write-ahead log: byte strings are sequences of numbers 0..255 *)

MAX_HEADER_SIZE == 21

\* n zero bytes
Zeroes(n) == [i \in 1..n |-> 0]

\* a varint cut to its first byte
VarintFirstByte(n) == IF n < 128 THEN <<n>> ELSE <<(n % 128) + 128>>

\* encode_varint_u32_to_array, encode_varint_u64_to_array: seven bits a byte,
\* low bits first, the top bit set on every byte but the last
RECURSIVE Varint(_)
Varint(n) ==
    IF n < 128 THEN <<n>>
    ELSE <<(n % 128) + 128>> \o Varint(n \div 128)

\* the header of entry e
HeaderOf(e) ==
    [key_len |-> Len(e.key), value_len |-> Len(e.value),
     expires_at |-> e.expires_at, meta |-> e.meta, user_meta |-> e.user_meta]

\* Header::encoded_len
HeaderEncodedLen(h) ==
    1 + 1 + Len(Varint(h.expires_at)) + Len(Varint(h.key_len))
          + Len(Varint(h.value_len))

\* a header encoded in the order in which encoded_len lists its fields
HeaderEncodeExpiresFirst(h) ==
    <<h.meta, h.user_meta>> \o Varint(h.expires_at) \o Varint(h.key_len)
                            \o Varint(h.value_len)

\* Header::encode
HeaderEncode(h) ==
    <<h.meta, h.user_meta>> \o Varint(h.key_len) \o Varint(h.value_len)
                            \o Varint(h.expires_at)

\* Wal::encode_entry
EncodeEntry(e) == HeaderEncode(HeaderOf(e)) \o e.key \o e.value

\* prost's decode_varint on buf from position pos (1-based): k bytes read so
\* far weigh mult = 128^k and sum to acc; it fails when the buffer ends inside
\* the varint or the varint is longer than ten bytes
RECURSIVE DecodeVarint(_, _, _, _, _)
DecodeVarint(buf, pos, k, mult, acc) ==
    IF pos > Len(buf) \/ k >= 10 THEN [ok |-> FALSE, val |-> 0, pos |-> pos]
    ELSE IF buf[pos] < 128
         THEN [ok |-> TRUE, val |-> acc + buf[pos] * mult, pos |-> pos + 1]
         ELSE DecodeVarint(buf, pos + 1, k + 1, mult * 128,
                           acc + (buf[pos] - 128) * mult)

\* the outcome of a decoding step: err is "None" or the kind of the error
Failed(err) == [err |-> err]

\* Header::decode, the third varint: expires_at
HeaderDecode3(meta, user_meta, key_len, value_len, v) ==
    IF ~v.ok THEN Failed("Decode")
    ELSE [err |-> "None", pos |-> v.pos,
          h |-> [key_len |-> key_len, value_len |-> value_len,
                 expires_at |-> v.val, meta |-> meta, user_meta |-> user_meta]]

\* Header::decode, the second varint: value_len
HeaderDecode2(buf, meta, user_meta, key_len, v) ==
    IF ~v.ok THEN Failed("Decode")
    ELSE HeaderDecode3(meta, user_meta, key_len, v.val,
                       DecodeVarint(buf, v.pos, 0, 1, 0))

\* Header::decode, the first varint: key_len
HeaderDecode1(buf, meta, user_meta, v) ==
    IF ~v.ok THEN Failed("Decode")
    ELSE HeaderDecode2(buf, meta, user_meta, v.val,
                       DecodeVarint(buf, v.pos, 0, 1, 0))

\* Header::decode on the bytes of buf from position pos on
HeaderDecode(buf, pos) ==
    IF Len(buf) - (pos - 1) <= 2 THEN Failed("VarDecode")
    ELSE HeaderDecode1(buf, buf[pos], buf[pos + 1],
                       DecodeVarint(buf, pos + 2, 0, 1, 0))

\* EntryReader::entry, after the header: read_exact of the key and of the
\* value
ReadKeyValue(buf, d) ==
    IF d.err # "None" THEN d
    ELSE IF d.pos - 1 + d.h.key_len + d.h.value_len > Len(buf)
         THEN Failed("UnexpectedEof")
         ELSE [err |-> "None",
               pos |-> d.pos + d.h.key_len + d.h.value_len,
               entry |-> [meta |-> d.h.meta, user_meta |-> d.h.user_meta,
                          expires_at |-> d.h.expires_at,
                          key |-> SubSeq(buf, d.pos, d.pos + d.h.key_len - 1),
                          value |-> SubSeq(buf, d.pos + d.h.key_len,
                                           d.pos + d.h.key_len + d.h.value_len - 1)]]

\* EntryReader::entry on the cursor at position pos of buf
ReadEntry(buf, pos) == ReadKeyValue(buf, HeaderDecode(buf, pos))

\* EntryRef::is_zero: the zero sentinel
IsZero(e) == e.key = <<>> /\ e.value = <<>> /\ e.meta = 0 /\ e.user_meta = 0

\* the match of WalIterator::next on the reader's answer d: the iterator
\* afterwards; end is "" while entries are yielded, "None" at the end of the
\* log and "Err" when Some(Err) was returned
NextMatch(w, d) ==
    IF d.err = "None"
    THEN IF IsZero(d.entry) THEN [w EXCEPT !.end = "None"]
         ELSE [w EXCEPT !.pos = d.pos, !.out = Append(@, d.entry)]
    ELSE IF d.err \in {"Decode", "VarDecode", "UnexpectedEof"}
         THEN [w EXCEPT !.end = "None"]
         ELSE [w EXCEPT !.end = "Err"]

\* WalIterator::next over the bytes buf
WalIteratorNext(w, buf) == NextMatch(w, ReadEntry(buf, w.pos))

\* s with the bytes b written from offset at (0-based) on
WriteBytes(s, at, b) ==
    [i \in 1..Len(s) |-> IF i > at /\ i <= at + Len(b) THEN b[i - at] ELSE s[i]]

\* opts.value_log_file_size of the model
ValueLogFileSize == 20

\* no file at the path; cut and torn record what happened to the file: cut
\* when it was truncated from outside, torn when a write panicked after it
\* had copied its entry
NoFile == [exists |-> FALSE, bytes |-> <<>>, cut |-> FALSE, torn |-> FALSE]

\* no Wal value; n counts the entries written through the handle
NoWal == [state |-> "closed", size |-> 0, write_at |-> 0, n |-> 0, reopened |-> FALSE]

\* no WalIterator
NoIter == [active |-> FALSE, pos |-> 1, out |-> <<>>, end |-> ""]

\* MmapOptions::map_mut: a file of length zero cannot be mapped
MapMut(bytes) == Len(bytes) > 0

\* the slice mmap_file[from .. from + n] is within the mapping
InMmap(bytes, from, n) == from + n <= Len(bytes)

\* Wal::zero_next_entry on the mapped bytes
ZeroNextEntry(bytes, write_at) == WriteBytes(bytes, write_at, Zeroes(MAX_HEADER_SIZE))

\* Wal::open of a path with no file: the file is created with
\* 2 * value_log_file_size bytes, mapped, and bootstrap zeroes the sentinel
OpenNew ==
    /\ file' = [NoFile EXCEPT !.exists = TRUE,
                              !.bytes = ZeroNextEntry(Zeroes(2 * ValueLogFileSize), 0)]
    /\ wal' = [NoWal EXCEPT !.state = "open", !.size = 2 * ValueLogFileSize]
    /\ written' = <<>>

\* Wal::open of an existing file: it is mapped as it is, write_at is 0
OpenExisting ==
    /\ wal' = IF MapMut(file.bytes)
              THEN [NoWal EXCEPT !.state = "open", !.size = Len(file.bytes),
                                 !.reopened = TRUE]
              ELSE [NoWal EXCEPT !.state = "failed", !.reopened = TRUE]
    /\ UNCHANGED <<file, written>>

\* Wal::open by a process that holds no Wal for the file
WalOpen ==
    /\ wal.state # "open"
    /\ IF file.exists THEN OpenExisting ELSE OpenNew
    /\ witer' = NoIter

\* write_entry of an encoded entry that does not fit: the copy panics, or the
\* copy is made and zero_next_entry panics
WritePanics(buf) ==
    /\ wal' = [wal EXCEPT !.state = "panicked"]
    /\ file' = IF InMmap(file.bytes, wal.write_at, Len(buf))
               THEN [file EXCEPT !.bytes = WriteBytes(@, wal.write_at, buf),
                                 !.torn = TRUE]
               ELSE file
    /\ UNCHANGED written

\* write_entry of entry e, encoded as buf, that fits: the copy, the advance of
\* write_at, and zero_next_entry
WriteFits(e, buf) ==
    /\ file' = [file EXCEPT !.bytes = ZeroNextEntry(WriteBytes(@, wal.write_at, buf),
                                                    wal.write_at + Len(buf))]
    /\ wal' = [wal EXCEPT !.write_at = @ + Len(buf), !.n = @ + 1]
    /\ written' = Append(SubSeq(written, 1, wal.n), e)

\* write_entry with the entry encoded as buf
WriteEncoded(e, buf) ==
    IF InMmap(file.bytes, wal.write_at + Len(buf), MAX_HEADER_SIZE)
    THEN WriteFits(e, buf)
    ELSE WritePanics(buf)

\* Wal::write_entry
WriteEntry(e) ==
    /\ wal.state = "open"
    /\ WriteEncoded(e, EncodeEntry(e))
    /\ witer' = NoIter

\* the Wal is dropped
WalDrop ==
    /\ wal.state = "open"
    /\ wal' = NoWal
    /\ witer' = NoIter
    /\ UNCHANGED <<file, written>>

\* the encoded length of the entries es
RECURSIVE TotalEncodedLen(_)
TotalEncodedLen(es) ==
    IF es = <<>> THEN 0 ELSE Len(EncodeEntry(Head(es))) + TotalEncodedLen(Tail(es))

\* the file is cut to len bytes while no process has it open
FileSetLen(len) ==
    /\ wal.state # "open"
    /\ file.exists
    /\ len <= Len(file.bytes)
    /\ file' = [file EXCEPT !.bytes = SubSeq(@, 1, len), !.cut = TRUE]
    /\ wal' = NoWal
    /\ UNCHANGED <<written, witer>>

\* the bytes of a file of length len, seen through a mapping of Len(bytes)
\* bytes made when the file was longer or shorter: the bytes beyond the end
\* of the file read as zero
BeyondEndZero(bytes, len) ==
    [i \in 1..Len(bytes) |-> IF i > len THEN 0 ELSE bytes[i]]

\* the bytes on disk of a file of length len whose first bytes are `bytes`
OnDisk(bytes, len) ==
    [i \in 1..len |-> IF i > Len(bytes) THEN 0 ELSE bytes[i]]

\* File::set_len on the file of the log
SetFileLen(f, len) == [f EXCEPT !.len = len, !.bytes = BeyondEndZero(@, len)]

\* Wal::read without the test against self.size
WalReadNoSize(w, bytes, offset, len) ==
    IF offset >= Len(bytes) \/ offset + len > Len(bytes)
    THEN [ok |-> FALSE, err |-> "LogRead"]
    ELSE [ok |-> TRUE, bytes |-> Slice(bytes, offset, offset + len)]

\* Wal::read(ValuePointer {offset, len}) on the mapping `bytes`
WalRead(w, bytes, offset, len) ==
    IF offset >= Len(bytes) \/ offset + len > Len(bytes) \/ offset + len > w.size
    THEN [ok |-> FALSE, err |-> "LogRead"]
    ELSE [ok |-> TRUE, bytes |-> Slice(bytes, offset, offset + len)]

\* Wal::truncate(end), entered as call `op`: nothing is done when the file
\* already has length end; calls lists the system calls made on the file
WalTruncate(op, end, calls) ==
    IF file.len = end
    THEN /\ UNCHANGED <<file, wal>>
         /\ lastop' = [op |-> op, arg |-> <<end>>,
                       out |-> [ok |-> TRUE, calls |-> Append(calls, "metadata")]]
    ELSE /\ wal' = [wal EXCEPT !.size = end]
         /\ file' = SetFileLen(file, end)
         /\ lastop' = [op |-> op, arg |-> <<end>>,
                       out |-> [ok |-> TRUE,
                                calls |-> calls \o <<"metadata", "set_len", "sync_all">>]]

\* a done_writing that syncs and leaves the file and size as they are
WalDoneWritingNoTruncate(offset, sync_writes) ==
    /\ UNCHANGED <<file, wal>>
    /\ lastop' = [op |-> "done_writing", arg |-> <<offset>>,
                  out |-> [ok |-> TRUE,
                           calls |-> IF sync_writes THEN <<"sync_all">> ELSE <<>>]]

\* Wal::done_writing(offset) under opts.sync_writes
WalDoneWriting(offset, sync_writes) ==
    WalTruncate("done_writing", offset, IF sync_writes THEN <<"sync_all">> ELSE <<>>)

\* Wal::set_size
WalSetSize(size) == wal' = [wal EXCEPT !.size = size]

\* Wal::set_len
WalSetLen(len) == file' = SetFileLen(file, len)

\* a should_flush that never asks for a flush
ShouldFlushNever(w, value_log_file_size) == FALSE

\* Wal::should_flush under opts.value_log_file_size
ShouldFlush(w, value_log_file_size) == w.write_at > value_log_file_size

\* Wal::iter: the iterator reads mmap_file[0 .. size]
WalIter ==
    /\ wal.state = "open"
    /\ witer' = [NoIter EXCEPT !.active = TRUE]
    /\ UNCHANGED <<file, wal, written>>

\* one call of WalIterator::next in the loop that reads the log
WalNext ==
    /\ witer.active /\ witer.end = ""
    /\ witer' = WalIteratorNext(witer, SubSeq(file.bytes, 1, wal.size))
    /\ UNCHANGED <<file, wal, written>>

-----------------------------------------------------------------------------
(* The state each subsystem starts in *)

\* the threads calling get
Readers == {"r1"}

\* the table variables of the specifications that use no table iterator
IdleTable ==
    /\ it = NewIterator(MkTable(<<>>, {}), 0)
    /\ lastop = [op |-> "new", key |-> <<>>]

InitLevels ==
    /\ levels = NewLevels
    /\ lock = [l \in 1..MaxLevels |-> FreeLock]
    /\ rd = [r \in Readers |-> IdleReader]
    /\ ad = <<>>

IdleLevels == InitLevels

IdleIds == next_file_id = 0 /\ ids = <<>>
IdleWal == file = <<>> /\ wal = <<>> /\ written = <<>> /\ witer = <<>>

\* the threads calling add_l0_table
Adders == {"a1", "a2"}

InitL0 ==
    /\ levels = NewLevels
    /\ lock = [l \in 1..MaxLevels |-> FreeLock]
    /\ rd = [r \in Readers |-> IdleReader]
    /\ ad = [a \in Adders |-> IdleAdder]

-----------------------------------------------------------------------------
(* The lookup specification: threads call LevelsController::get while      *)
(* writers add tables to, and remove tables from, the levels.              *)

\* the user keys "k" and "j"
KeyK == <<107>>
KeyJ == <<106>>

\* the value "v<ts>" written at version ts, and the tombstone written at ts
ValueAt(ts) == MkValue(0, ts, <<118, 48 + ts>>)
TombstoneAt(ts) == MkValue(0, ts, <<>>)

\* one table holding k|5 -> v5 and k|3 -> v3, in one block and in two
VersionedTable ==
    BuildTableKV(KeyWithTs(KeyK, 5) :> ValueAt(5) @@ KeyWithTs(KeyK, 3) :> ValueAt(3),
                 {}, {})
VersionedTableTwoBlocks ==
    BuildTableKV(KeyWithTs(KeyK, 5) :> ValueAt(5) @@ KeyWithTs(KeyK, 3) :> ValueAt(3),
                 {1}, {})
\* a table holding the tombstone of k written at version 7
TombstoneTable == BuildTableKV(KeyWithTs(KeyK, 7) :> TombstoneAt(7), {}, {})
\* a table holding k|7 -> v7
ValueTable == BuildTableKV(KeyWithTs(KeyK, 7) :> ValueAt(7), {}, {})
\* a table holding k|5 with an empty payload and meta 1: not a tombstone
MetaOnlyTable == BuildTableKV(KeyWithTs(KeyK, 5) :> MkValue(1, 5, <<>>), {}, {})

LevelTablePool ==
    {VersionedTable, VersionedTableTwoBlocks, TombstoneTable, ValueTable,
     MetaOnlyTable}

\* the keys looked up: versions of k that are stored, one in between, and j
GetKeys ==
    {KeyWithTs(KeyK, 7), KeyWithTs(KeyK, 5), KeyWithTs(KeyK, 4), KeyWithTs(KeyJ, 7)}

TotalTables == LET n[l \in 0..MaxLevels] ==
                       IF l = 0 THEN 0 ELSE n[l - 1] + Len(levels[l].tables)
               IN n[MaxLevels]

InitSpecGet == InitLevels /\ IdleTable /\ IdleIds /\ IdleWal

Install ==
    /\ TotalTables < MaxLevelTables
    /\ \E l \in 1..MaxLevels, t \in LevelTablePool : WriterInstall(l, t)
    /\ UNCHANGED <<tableVars, idVars, walVars>>

Remove ==
    /\ \E l \in 1..MaxLevels, n \in 1..MaxLevelTables : WriterRemove(l, n)
    /\ UNCHANGED <<tableVars, idVars, walVars>>

Get ==
    /\ \E r \in Readers, k \in GetKeys, s \in 0..MaxLevels : GetCall(r, k, s)
    /\ UNCHANGED <<tableVars, idVars, walVars>>

GetTakeLock ==
    /\ \E r \in Readers : GetLoop(r)
    /\ UNCHANGED <<tableVars, idVars, walVars>>

GetConsult ==
    /\ \E r \in Readers : GetMatch(r)
    /\ UNCHANGED <<tableVars, idVars, walVars>>

NextGet == Install \/ Remove \/ Get \/ GetTakeLock \/ GetConsult

SpecGet == InitSpecGet /\ [][NextGet]_vars

-----------------------------------------------------------------------------
(* The L0 admission specification: threads call add_l0_table while the      *)
(* compactor evicts tables from L0.                                         *)

L0TablePool == {ValueTable, TombstoneTable}

InitSpecL0 == InitL0 /\ IdleTable /\ IdleIds /\ IdleWal

Add ==
    /\ \E a \in Adders, t \in L0TablePool : AddCall(a, t)
    /\ UNCHANGED <<tableVars, idVars, walVars>>

AddTakeLock(a) ==
    /\ AddLock(a)
    /\ UNCHANGED <<tableVars, idVars, walVars>>

AddAttempt(a) ==
    /\ AddTry(a)
    /\ UNCHANGED <<tableVars, idVars, walVars>>

AddSleep(a) ==
    /\ AddWake(a)
    /\ UNCHANGED <<tableVars, idVars, walVars>>

Evict ==
    /\ \E n \in 1..NumLevelZeroTablesStall : WriterRemove(1, n)
    /\ UNCHANGED <<tableVars, idVars, walVars>>

AddStep == \E a \in Adders : AddTakeLock(a) \/ AddAttempt(a) \/ AddSleep(a)

NextL0 == Add \/ AddStep \/ Evict

SpecL0 == InitSpecL0 /\ [][NextL0]_vars

\* every thread in add_l0_table is scheduled again and again, its sleep ends,
\* and the write lock does not starve it; nothing obliges the compactor to
\* evict
FairAdders ==
    \A a \in Adders :
        /\ SF_vars(AddTakeLock(a))
        /\ WF_vars(AddAttempt(a))
        /\ WF_vars(AddSleep(a))

FairSpecL0 == InitSpecL0 /\ [][NextL0]_vars /\ FairAdders

-----------------------------------------------------------------------------
(* The file id specification: threads call reserve_file_id concurrently.    *)

\* the number of ids handed out in a run of the model
MaxFileIds == 4

\* the threads calling reserve_file_id
Callers == {"c1", "c2", "c3"}

\* no call pending
NoId == -1

\* a load of the counter without the add
LoadOnly(cur) == [ret |-> cur, new |-> cur]

\* AtomicU64::fetch_add(1, SeqCst): the previous value is returned and the
\* counter is one higher, in one atomic step; the counter would wrap at 2^64,
\* far beyond the ids a run hands out
FetchAdd(cur) == [ret |-> cur, new |-> cur + 1]

\* the bookkeeping of the calls: log lists the fetches in the order they took
\* place, pending holds the id a call has fetched and not yet returned, got
\* lists the ids each thread was returned, in its program order
NoCalls ==
    [log |-> <<>>, pending |-> [c \in Callers |-> NoId],
     got |-> [c \in Callers |-> <<>>]]

\* thread c has fetched with result f
Fetched(c, f) ==
    /\ next_file_id' = f.new
    /\ ids' = [ids EXCEPT !.log = Append(@, [caller |-> c, id |-> f.ret]),
                          !.pending[c] = f.ret]

\* reserve_file_id: the fetch_add
ReserveFileId(c) ==
    /\ ids.pending[c] = NoId
    /\ next_file_id < MaxFileIds
    /\ Fetched(c, FetchAdd(next_file_id))

\* reserve_file_id returns the fetched value to its caller
ReturnFileId(c) ==
    /\ ids.pending[c] # NoId
    /\ ids' = [ids EXCEPT !.pending[c] = NoId, !.got[c] = Append(@, ids.pending[c])]
    /\ UNCHANGED next_file_id

InitSpecIds ==
    /\ next_file_id = 0 /\ ids = NoCalls
    /\ IdleTable /\ IdleLevels /\ IdleWal

Reserve ==
    /\ \E c \in Callers : ReserveFileId(c)
    /\ UNCHANGED <<tableVars, levelVars, walVars>>

Return ==
    /\ \E c \in Callers : ReturnFileId(c)
    /\ UNCHANGED <<tableVars, levelVars, walVars>>

NextIds == Reserve \/ Return

SpecIds == InitSpecIds /\ [][NextIds]_vars

-----------------------------------------------------------------------------
(* The log specification: a log is created and written, dropped, possibly   *)
(* cut short from outside, reopened and read.                               *)

\* an entry of the log
MkEntry(meta, user_meta, expires_at, key, value) ==
    [meta |-> meta, user_meta |-> user_meta, expires_at |-> expires_at,
     key |-> key, value |-> value]

\* the entries written: the zero entry, entries with an empty key or value,
\* with a zero byte as value, with a two-byte varint, with only one of meta
\* and user_meta set
EntryPool ==
    {MkEntry(0, 0, 0, <<>>, <<>>),
     MkEntry(0, 0, 0, <<97>>, <<1>>),
     MkEntry(0, 0, 200, <<98>>, <<>>),
     MkEntry(0, 0, 0, <<>>, <<0>>),
     MkEntry(1, 0, 0, <<>>, <<>>),
     MkEntry(0, 1, 0, <<>>, <<>>)}

InitSpecWal ==
    /\ file = NoFile /\ wal = NoWal /\ written = <<>> /\ witer = NoIter
    /\ IdleTable /\ IdleLevels /\ IdleIds

Open ==
    /\ WalOpen
    /\ UNCHANGED <<tableVars, levelVars, idVars>>

\* the log is written through the handle that created it
Write ==
    /\ ~wal.reopened
    /\ \E e \in EntryPool : WriteEntry(e)
    /\ UNCHANGED <<tableVars, levelVars, idVars>>

Drop ==
    /\ WalDrop
    /\ UNCHANGED <<tableVars, levelVars, idVars>>

\* the file is cut to a length within the encoded entries
Cut ==
    /\ \E len \in 0..TotalEncodedLen(written) : FileSetLen(len)
    /\ UNCHANGED <<tableVars, levelVars, idVars>>

Iter ==
    /\ WalIter
    /\ UNCHANGED <<tableVars, levelVars, idVars>>

IterNextEntry ==
    /\ WalNext
    /\ UNCHANGED <<tableVars, levelVars, idVars>>

NextWal == Open \/ Write \/ Drop \/ Cut \/ Iter \/ IterNextEntry

SpecWal == InitSpecWal /\ [][NextWal]_vars

-----------------------------------------------------------------------------
(* The table iterator's specification: one iterator over one table, called  *)
(* through its public methods in any order.                                 *)

InitTable ==
    /\ \E t \in TablePool, opt \in {0, ITERATOR_REVERSED} : it = NewIterator(t, opt)
    /\ lastop = [op |-> "new", key |-> <<>>]

Call(op, key, result) ==
    /\ ~it.panicked
    /\ it' = result
    /\ lastop' = [op |-> op, key |-> key]
    /\ UNCHANGED <<levelVars, idVars, walVars>>

TSeek == \E k \in SeekKeys : Call("seek", k, IterSeek(it, k))
TNext == Call("next", <<>>, IterNext(it))
TPrev == Call("prev", <<>>, IterPrev(it))
TRewind == Call("rewind", <<>>, Rewind(it))
TSeekToFirst == Call("seek_to_first", <<>>, SeekToFirst(it))
TSeekToLast == Call("seek_to_last", <<>>, SeekToLast(it))
TReset == Call("reset", <<>>, Reset(it))

NextTable ==
    \/ TSeek \/ TNext \/ TPrev
    \/ TRewind \/ TSeekToFirst \/ TSeekToLast \/ TReset

InitSpecTable == InitTable /\ IdleLevels /\ IdleIds /\ IdleWal

SpecTable == InitSpecTable /\ [][NextTable]_vars

-----------------------------------------------------------------------------
(* Properties of the table iterator *)

\* the keys of the iterator's table that are not below t
KeysNotBelow(t) == {k \in TableKeys(it.table) : CompareKey(k, t) # -1}

\* the last call was seek(t) on a forward iterator
AfterForwardSeek == lastop.op = "seek" /\ ~Reversed(it) /\ ~it.panicked

\* C4: after seek(t) on a forward iterator over sorted blocks, the iterator is
\* invalid with EOF and no key of the table is >= t, or it is valid and key()
\* is the least key of the whole table that is >= t; it ends in Error only
\* when the block it asked for could not be loaded.
C4_SeekLaw ==
    AfterForwardSeek =>
        \/ it.err = "EOF" /\ KeysNotBelow(lastop.key) = {}
        \/ /\ it.err = "None"
           /\ KeysNotBelow(lastop.key) # {}
           /\ IterKey(it) = MinKey(KeysNotBelow(lastop.key))
        \/ it.err = "Error" /\ ~BlockLoads(it.table, it.bpos)

\* C4's case: t lies between the last key of block bpos - 1 and the first key
\* of block bpos, and the iterator stands on the first key of block bpos
C4_Straddle ==
    /\ AfterForwardSeek
    /\ it.err = "None"
    /\ it.bpos >= 1
    /\ LET prev == it.table.blocks[it.bpos] IN
       CompareKey(EntryKey(prev, Len(prev)), lastop.key) = -1
    /\ CompareKey(lastop.key, OffsetKey(it.table, it.bpos)) = -1
    /\ IterKey(it) = OffsetKey(it.table, it.bpos)

-----------------------------------------------------------------------------
(* Properties of the lookup through the levels *)

\* the handler's answer res ends the walk for key: a value that is not a
\* tombstone and carries the version the key asks for
Qualifies(res, key) ==
    res.some /\ ~IsTombstone(res.v) /\ res.v.version = GetTs(key)

\* what a walk over levels lv, lv + 1, ... returns for key
RECURSIVE FirstQualifying(_, _)
FirstQualifying(lv, key) ==
    IF lv >= MaxLevels THEN Some(MaxValue)
    ELSE IF Qualifies(LevelHandlerGet(levels[lv + 1], key), key)
         THEN LevelHandlerGet(levels[lv + 1], key)
         ELSE FirstQualifying(lv + 1, key)

\* the levels a call has consulted are start_level, start_level + 1, ...
ConsultedInOrder(c) ==
    \A i \in 1..Len(c.seen) : c.seen[i].level = c.start_level + (i - 1)

\* a finished call stopped at the first answer that qualified, and returned
\* it; or no answer qualified, every level from start_level on was consulted
\* and max_value came back
StoppedAtFirst(c) ==
    /\ \A i \in 1..(Len(c.seen) - 1) : ~Qualifies(c.seen[i].res, c.key)
    /\ IF c.seen # <<>> /\ Qualifies(c.seen[Len(c.seen)].res, c.key)
       THEN c.result = c.seen[Len(c.seen)].res
       ELSE /\ c.result = Some(MaxValue)
            /\ c.start_level + Len(c.seen) >= MaxLevels

\* C1: get consults the levels in increasing order from start_level, never a
\* level below it, and returns the value of the first level whose handler
\* answers with a value that is no tombstone and has the key's version; when
\* no level qualifies (start_level >= max_levels included) it returns
\* max_value.
C1_GetSemantics ==
    \A r \in Readers :
        /\ ConsultedInOrder(rd[r])
        /\ rd[r].pc = "done" => StoppedAtFirst(rd[r])
        /\ rd[r].pc = "done" /\ ~rd[r].dirty =>
               rd[r].result = FirstQualifying(rd[r].start_level, rd[r].key)

\* C1's case: a call with start_level 1 passed an answer that did not qualify
\* and returned the value of the next level
C1_DeeperLevel ==
    \E r \in Readers :
        /\ rd[r].pc = "done" /\ ~rd[r].dirty
        /\ rd[r].start_level = 1
        /\ Len(rd[r].seen) = 2
        /\ rd[r].seen[1].res.some
        /\ rd[r].result = rd[r].seen[2].res
        /\ rd[r].result # Some(MaxValue)

\* the i-th answer of call c was a tombstone
SawTombstone(c, i) == c.seen[i].res.some /\ IsTombstone(c.seen[i].res.v)

\* after a tombstone at a level the call goes on to the next level, until the
\* levels run out
WentOn(c, i) ==
    \/ Len(c.seen) > i
    \/ c.pc \in {"loop", "locked"} /\ c.level = c.seen[i].level + 1
    \/ c.pc = "done" /\ c.seen[i].level = MaxLevels - 1 /\ c.result = Some(MaxValue)

\* a tombstone of k in L0 and k|7 -> v7 in L1
TombstoneAbove ==
    /\ levels[1].tables = <<TombstoneTable>>
    /\ levels[2].tables = <<ValueTable>>

LevelKeys(h) == UNION {TableKeys(h.tables[n]) : n \in 1..Len(h.tables)}
HoldsKey(t, k) == k \in TableKeys(t)
ValueIn(t, k) ==
    LET at == CHOOSE p \in {<<b, e>> : b \in 1..Len(t.blocks), e \in 1..MaxTableKeys} :
                  /\ p[2] <= Len(t.blocks[p[1]])
                  /\ EntryKey(t.blocks[p[1]], p[2]) = k
    IN DecodeValue(t.blocks[at[1]][at[2]].val)
LevelValue(h, k) ==
    ValueIn(h.tables[CHOOSE n \in 1..Len(h.tables) :
                         /\ HoldsKey(h.tables[n], k)
                         /\ \A m \in 1..(n - 1) : ~HoldsKey(h.tables[m], k)], k)

\* the least key of handler h that is not below the target, when it has the
\* target's user key
FirstNotBelow(nb, key) ==
    IF nb = {} THEN <<>>
    ELSE IF SameKey(key, MinKey(nb)) THEN MinKey(nb) ELSE <<>>
Found(h, key) ==
    FirstNotBelow({k \in LevelKeys(h) : CompareKey(k, key) # -1}, key)

\* the levels a call consulted still hold the tables it saw, and level l holds
\* just the table with k|5 -> v5 and k|3 -> v3
AskedVersionedTable(c, i) ==
    /\ ~c.dirty /\ c.key = KeyWithTs(KeyK, 4)
    /\ levels[c.seen[i].level + 1].tables
           \in {<<VersionedTable>>, <<VersionedTableTwoBlocks>>}

\* C8 as stated: with one table holding k|5 -> v5 and k|3 -> v3, the handler
\* answers get(k|4) with the entry of k|5.
C8_AsStated ==
    \A r \in Readers : \A i \in 1..Len(rd[r].seen) :
        AskedVersionedTable(rd[r], i) => rd[r].seen[i].res = Some(ValueAt(5))

\* C8 amended: the handler answers with the entry of the least key that is
\* not below the target under the comparator, provided it has the target's
\* user key, whatever its version; newer versions compare first, so for the
\* table holding k|5 and k|3 the answer to get(k|4) is the entry of k|3.
C8_FirstNotBelow ==
    \A r \in Readers : \A i \in 1..Len(rd[r].seen) :
        /\ ~rd[r].dirty =>
               rd[r].seen[i].res =
                   IF Found(levels[rd[r].seen[i].level + 1], rd[r].key) = <<>>
                   THEN None
                   ELSE Some(LevelValue(levels[rd[r].seen[i].level + 1],
                                        Found(levels[rd[r].seen[i].level + 1],
                                              rd[r].key)))
        /\ AskedVersionedTable(rd[r], i) =>
               /\ rd[r].seen[i].res = Some(ValueAt(3))
               /\ SameKey(rd[r].key, KeyWithTs(KeyK, 3))
               /\ rd[r].seen[i].res.v.version # GetTs(rd[r].key)

\* C8's case: a call asked the level holding just that table for k|4
C8_Scenario ==
    \E r \in Readers : \E i \in 1..Len(rd[r].seen) :
        /\ AskedVersionedTable(rd[r], i)
        /\ rd[r].seen[i].res = Some(ValueAt(3))

\* C9: a thread in get holds the read guard of at most one level: none while
\* it asks for the next level's guard, none when get has returned, and only
\* the guard of the level it is consulting in between.
C9_OneReadLock ==
    \A r \in Readers :
        /\ Cardinality(ReadHeld(r)) <= 1
        /\ rd[r].pc \in {"idle", "loop", "done"} => ReadHeld(r) = {}
        /\ rd[r].pc = "locked" => ReadHeld(r) = {rd[r].level + 1}

\* C9's case: the thread holds the guard of a level after it has consulted,
\* and left, the level above it
C9_SecondLevel ==
    \E r \in Readers :
        /\ rd[r].pc = "locked"
        /\ rd[r].seen # <<>>
        /\ ReadHeld(r) = {rd[r].level + 1}

-----------------------------------------------------------------------------
(* Properties of the L0 admission *)

\* L0 holds as many tables as the stall threshold allows
L0Full == Len(levels[1].tables) >= NumLevelZeroTablesStall

\* thread a makes its attempt in this step
Attempts(a) == ad[a].pc = "locked" /\ ad'[a].pc # "locked"

\* the attempt of thread a was refused: L0 is as before and a goes to sleep
Refused(a) == levels' = levels /\ ad'[a].pc = "sleep"

\* the attempt of thread a was admitted: its table is the last of L0,
\* total_size has grown by its size, and a returns
Admitted(a) ==
    /\ levels'[1].tables = Append(levels[1].tables, ad[a].table)
    /\ levels'[1].total_size = levels[1].total_size + TableSize(ad[a].table)
    /\ \A l \in 2..MaxLevels : levels'[l] = levels[l]
    /\ ad'[a].pc = "done"

\* an attempt is refused exactly when L0 is full
AttemptLaw == \A a \in Adders : Attempts(a) => IF L0Full THEN Refused(a) ELSE Admitted(a)

\* C5: try_add_l0_table returns false exactly when tables.len() >=
\* num_level_zero_tables_stall and then leaves tables and total_size alone;
\* otherwise it appends the table and returns true. Hence L0 never holds more
\* than num_level_zero_tables_stall tables, whatever adds and evictions
\* happen: at the threshold the next attempt is refused, and after an
\* eviction the next attempt is admitted.
C5_AdmissionBound ==
    /\ [](Len(levels[1].tables) <= NumLevelZeroTablesStall)
    /\ [][AttemptLaw]_vars

\* C5's case: a call that was refused at a full L0 was admitted after an
\* eviction, and L0 is full again
C5_AdmittedAfterEviction ==
    \E a \in Adders :
        /\ ad[a].pc = "done" /\ ad[a].stalled
        /\ Len(levels[1].tables) = NumLevelZeroTablesStall
        /\ levels[1].tables[NumLevelZeroTablesStall] = ad[a].table

\* thread a is inside add_l0_table
InCall(a) == ad[a].pc \in {"try", "locked", "sleep"}

\* a call that has returned pushed its table once, a call that has not
\* returned has not pushed it; a call is never in a state other than those of
\* the loop and the Ok return
OncePerCall ==
    \A a \in Adders :
        /\ ad[a].pc \in {"idle", "try", "locked", "sleep", "done"}
        /\ ad[a].pc = "done" => ad[a].appended = 1
        /\ ad[a].pc # "done" => ad[a].appended = 0

\* thread a returns in this step only if L0 had a free slot, which its table
\* takes; at a full L0 the call stays in the loop
ReturnsOnAppend ==
    \A a \in Adders :
        /\ InCall(a) /\ ad'[a].pc = "done" => ~L0Full /\ Admitted(a)
        /\ InCall(a) /\ L0Full => InCall(a)'

\* C6: add_l0_table never fails. At a full L0 it keeps retrying, sleeping in
\* between, and does not return; it returns Ok only when its table has been
\* appended to L0, exactly once. Under fair scheduling a call that finds a
\* free slot eventually returns unless the slot is taken by another adder; a
\* call returns in no step taken at a full L0.
C6_StallsNeverFails ==
    /\ []OncePerCall
    /\ [][ReturnsOnAppend]_vars
    /\ \A a \in Adders : (InCall(a) /\ ~L0Full) ~> (ad[a].pc = "done" \/ L0Full)

\* C6's case: one call has returned after having been refused, another one
\* is asleep at a full L0
C6_Stalled ==
    \E a, b \in Adders :
        /\ ad[a].pc = "done" /\ ad[a].stalled /\ ad[a].appended = 1
        /\ ad[b].pc = "sleep" /\ L0Full

-----------------------------------------------------------------------------
(* Properties of the file ids *)

\* the ids thread c has been handed, the pending one included
Handed(c) ==
    IF ids.pending[c] = NoId THEN ids.got[c]
    ELSE Append(ids.got[c], ids.pending[c])

\* C10: under any interleaving of the callers no two calls of
\* reserve_file_id return the same id, the ids are 0, 1, 2, ... without gaps
\* in the order of the fetches, and the ids one caller receives are strictly
\* increasing.
C10_UniqueFileIds ==
    /\ \A i \in 1..Len(ids.log) : ids.log[i].id = i - 1
    /\ next_file_id = Len(ids.log)
    /\ \A c \in Callers :
           /\ \A i \in 1..(Len(Handed(c)) - 1) : Handed(c)[i] < Handed(c)[i + 1]
           /\ \A i \in 1..Len(Handed(c)) :
                  /\ Handed(c)[i] \in 0..(Len(ids.log) - 1)
                  /\ ids.log[Handed(c)[i] + 1].caller = c
    /\ \A c, d \in Callers : \A i \in 1..Len(Handed(c)), j \in 1..Len(Handed(d)) :
           Handed(c)[i] = Handed(d)[j] => c = d /\ i = j

\* C10's case: the calls of two threads interleave; one thread's fetch falls
\* between two fetches of another, and returns after them
C10_Interleaved ==
    \E c, d \in Callers :
        /\ c # d
        /\ Len(ids.got[c]) = 2
        /\ ids.pending[d] # NoId
        /\ ids.got[c][1] < ids.pending[d]
        /\ ids.pending[d] < ids.got[c][2]

-----------------------------------------------------------------------------
(* Properties of the log *)

\* the loop over the iterator has come to its end
Finished == witer.active /\ witer.end # ""

\* s is a prefix of t
IsPrefix(s, t) == Len(s) <= Len(t) /\ s = SubSeq(t, 1, Len(s))

\* the log was written in full, dropped and reopened
Reopened == wal.state = "open" /\ wal.reopened /\ ~file.cut /\ ~file.torn

\* no written entry is the zero entry
NoZeroEntry == \A i \in 1..Len(written) : ~IsZero(written[i])

\* C2 as stated: for any entries written to a new log, the iterator of the
\* reopened log yields exactly these entries, in order, and then None.
C2_AsStated ==
    Reopened /\ Finished => witer.out = written /\ witer.end = "None"

\* C2 amended: for entries none of which is the zero entry (empty key, empty
\* value, meta 0 and user_meta 0), written to a new log by calls of
\* write_entry that returned, the iterator of the reopened log yields exactly
\* these entries, in order and equal on key, value, meta, user_meta and
\* expires_at, and then None; a written zero entry reads as the sentinel and
\* ends the iteration before it.
C2_RoundTrip ==
    /\ Reopened /\ Finished /\ NoZeroEntry =>
           witer.out = written /\ witer.end = "None"
    /\ Reopened /\ Finished =>
           /\ IsPrefix(witer.out, written)
           /\ witer.end = "None"
           /\ Len(witer.out) < Len(written) => IsZero(written[Len(witer.out) + 1])

\* C2's case: three entries, one with a two-byte varint, came back from the
\* reopened log
C2_ThreeEntries ==
    /\ Reopened /\ Finished /\ NoZeroEntry
    /\ Len(written) = 3
    /\ \E i \in 1..3 : written[i].expires_at >= 128
    /\ witer.out = written

\* C3 as stated: after a cut to any length from 0 to the encoded length of
\* the entries, the reopened log yields a prefix of the entries and then
\* None, never Some(Err).
C3_AsStated ==
    file.cut =>
        /\ wal.state # "failed"
        /\ Finished => IsPrefix(witer.out, written) /\ witer.end = "None"

\* a cut log that could be mapped yields a prefix of the entries and then
\* None
CutPrefix ==
    file.cut /\ Finished => IsPrefix(witer.out, written) /\ witer.end = "None"

\* C3's failing case: the log was cut to length 0 and open has failed
C3_EmptyFile == file.cut /\ file.bytes = <<>> /\ wal.state = "failed"

-----------------------------------------------------------------------------
(* The traversal specification: a forward iterator over a table whose       *)
(* blocks all load is positioned by seek_to_first or seek_to_last and then  *)
(* stepped by next or prev until a call leaves it invalid.  lastop.seen is  *)
(* the sequence of keys the iterator stood on since the positioning call.   *)

\* the tables whose blocks all load
ScanTables == {t \in TablePool : t.bad = {}}

RECURSIVE TableOrder(_, _)
\* the keys of table t from block b (1-based) on, block after block
TableOrder(t, b) ==
    IF b > Len(t.blocks) THEN <<>>
    ELSE [e \in 1..Len(t.blocks[b]) |-> EntryKey(t.blocks[b], e)]
             \o TableOrder(t, b + 1)

Reverse(s) == [n \in 1..Len(s) |-> s[Len(s) + 1 - n]]

\* the keys seen so far and the key the iterator stands on now, if any
Visit(seen, i) == IF Valid(i) THEN Append(seen, IterKey(i)) ELSE seen

InitSpecScan ==
    /\ \E t \in ScanTables : it = NewIterator(t, 0)
    /\ lastop = [op |-> "new", key |-> <<>>, dir |-> "none", seen |-> <<>>]
    /\ IdleLevels /\ IdleIds /\ IdleWal

\* a positioning call starts a traversal in direction dir
ScanStart(op, dir, result) ==
    /\ it' = result
    /\ lastop' = [op |-> op, key |-> <<>>, dir |-> dir, seen |-> Visit(<<>>, result)]
    /\ UNCHANGED <<levelVars, idVars, walVars>>

\* a stepping call continues the traversal, up to the first call that leaves
\* the iterator invalid
ScanStep(op, dir, result) ==
    /\ lastop.dir = dir
    /\ Valid(it)
    /\ it' = result
    /\ lastop' = [lastop EXCEPT !.op = op, !.seen = Visit(@, result)]
    /\ UNCHANGED <<levelVars, idVars, walVars>>

ScanFirst == ScanStart("seek_to_first", "forward", SeekToFirst(it))
ScanLast == ScanStart("seek_to_last", "backward", SeekToLast(it))
ScanNext == ScanStep("next", "forward", IterNext(it))
ScanPrev == ScanStep("prev", "backward", IterPrev(it))

NextScan == ScanFirst \/ ScanLast \/ ScanNext \/ ScanPrev

SpecScan == InitSpecScan /\ [][NextScan]_vars

-----------------------------------------------------------------------------
(* Properties of the traversal *)

\* the order in which a traversal in direction dir must visit the keys
ScanOrder(dir) ==
    IF dir = "forward" THEN TableOrder(it.table, 1)
    ELSE Reverse(TableOrder(it.table, 1))

\* the block (0-based) and the entry (0-based) of the n-th key in table order
RECURSIVE PlaceOf(_, _, _)
PlaceOf(t, b, n) ==
    IF n <= Len(t.blocks[b + 1]) THEN <<b, n - 1>>
    ELSE PlaceOf(t, b + 1, n - Len(t.blocks[b + 1]))

\* the place in table order of the last key seen
SeenPlace ==
    PlaceOf(it.table, 0,
            IF lastop.dir = "forward" THEN Len(lastop.seen)
            ELSE Len(TableOrder(it.table, 1)) + 1 - Len(lastop.seen))

\* while the traversal is under way the iterator has visited a prefix of the
\* order, each key once, and stands in the block and on the entry of the last
\* key seen; when a call has left it invalid, it has visited the whole order
VisitsInOrder ==
    lastop.dir # "none" =>
        /\ IsPrefix(lastop.seen, ScanOrder(lastop.dir))
        /\ Valid(it) => /\ lastop.seen # <<>>
                        /\ <<it.bpos, it.block_iterator.idx>> = SeenPlace
        /\ ~Valid(it) => lastop.seen = ScanOrder(lastop.dir)

\* C11 as stated: after seek_to_first, repeated next() visits every entry of
\* every block in table order exactly once, and the call after the last entry
\* leaves the iterator invalid with EOF; symmetrically for seek_to_last and
\* repeated prev().
C11_AsStated ==
    /\ VisitsInOrder
    /\ lastop.dir # "none" /\ ~Valid(it) => it.err = "EOF"

\* what the code does at the two ends: the call before the first entry ends
\* in EOF, the call after the last entry asks the table for block
\* offsets_length() and ends in Error
EndOfScan ==
    lastop.dir # "none" /\ ~Valid(it) =>
        IF lastop.dir = "backward" \/ OffsetsLength(it.table) = 0
        THEN it.err = "EOF"
        ELSE it.err = "Error" /\ it.bpos = OffsetsLength(it.table)

\* C11's failing case: a forward traversal has visited all keys of a table of
\* two blocks and the next call ended in Error
C11_ErrorAfterLast ==
    /\ lastop.op = "next"
    /\ Len(it.table.blocks) = 2
    /\ lastop.seen = TableOrder(it.table, 1)
    /\ it.err = "Error"

-----------------------------------------------------------------------------
(* Properties of the reversed table iterator *)

\* the iterator stands on an entry: it is valid, and its block iterator holds
\* block bpos of the table and the key of entry idx of that block
Standing(i) ==
    /\ ~i.panicked /\ Valid(i)
    /\ i.block_iterator # NoBlockIterator
    /\ i.bpos >= 0 /\ i.bpos < Len(i.table.blocks)
    /\ i.block_iterator.block = i.table.blocks[i.bpos + 1]
    /\ i.block_iterator.data # <<>>
    /\ i.block_iterator.idx >= 0
    /\ i.block_iterator.idx < Len(i.block_iterator.block)
    /\ IterKey(i) = EntryKey(i.block_iterator.block, i.block_iterator.idx + 1)

RECURSIVE Rank(_, _, _)
\* the place (1-based) in table order of entry e (0-based) of block b (0-based)
Rank(t, b, e) == IF b = 0 THEN e + 1 ELSE Len(t.blocks[b]) + Rank(t, b - 1, e)

\* the iterator stands on the n-th entry of the table
StandsAt(i, n) == Standing(i) /\ Rank(i.table, i.bpos, i.block_iterator.idx) = n

\* the number of keys of the order that are not above t: the order is sorted,
\* so this is the place of the largest key <= t
NotAbove(order, t) == Cardinality({n \in 1..Len(order) : CompareKey(order[n], t) # 1})

\* the iterator stands at place n, or is invalid with EOF when n is 0
AtOrEOF(i, n) == IF n = 0 THEN ~i.panicked /\ i.err = "EOF" ELSE StandsAt(i, n)

\* the iterator stands at place n, or is invalid when n is beyond the order
AtOrInvalid(i, n, len) == IF n > len THEN ~i.panicked /\ ~Valid(i) ELSE StandsAt(i, n)

\* what one call does to a reversed iterator over the keys in `order`
MirrorStep(order) ==
    /\ lastop'.op = "rewind" => StandsAt(it', Len(order))
    /\ lastop'.op = "seek" => AtOrEOF(it', NotAbove(order, lastop'.key))
    /\ lastop'.op = "next" /\ Standing(it) =>
           AtOrEOF(it', Rank(it.table, it.bpos, it.block_iterator.idx) - 1)
    /\ lastop'.op = "prev" /\ Standing(it) =>
           AtOrInvalid(it', Rank(it.table, it.bpos, it.block_iterator.idx) + 1,
                       Len(order))

\* a reversed iterator over a table that has entries and whose blocks all load
ReversedOverEntries ==
    Reversed(it) /\ it.table.bad = {} /\ Len(it.table.blocks) > 0

\* C12: an iterator built with ITERATOR_REVERSED is the mirror image of the
\* forward one: rewind() stands on the last entry, next() moves to the
\* preceding entry (EOF before the first), prev() moves to the following
\* entry, and seek(t) stands on the largest key <= t, or is invalid with EOF
\* when every key is > t; so rewind() and repeated next() yield the reverse
\* of the forward sequence.
C12_Mirror ==
    [][ReversedOverEntries => MirrorStep(TableOrder(it.table, 1))]_vars

\* C12's case: seek(t) on a reversed iterator, t is not a key of the table
\* and lies between two keys of different blocks, and the iterator stands on
\* the last key of the earlier block
C12_SeekBetweenBlocks ==
    /\ ReversedOverEntries /\ lastop.op = "seek" /\ Standing(it)
    /\ lastop.key \notin TableKeys(it.table)
    /\ it.bpos + 1 < Len(it.table.blocks)
    /\ it.block_iterator.idx + 1 = Len(it.block_iterator.block)
    /\ CompareKey(IterKey(it), lastop.key) = -1
    /\ CompareKey(lastop.key, OffsetKey(it.table, it.bpos + 1)) = -1

-----------------------------------------------------------------------------
(* Properties of the table iterator after a failed block load *)

\* a positioning call whose block could not be loaded ends in Error
FailedLoadIsError ==
    /\ lastop.op \in {"seek_to_first", "seek_to_last"}
    /\ OffsetsLength(it.table) > 0
    /\ ~BlockLoads(it.table, it.bpos)
    => it.err = "Error" /\ ~Valid(it)

\* C13 as stated: once a block load has failed the error is
\* IteratorError::Error and valid() is false, and valid() stays false across
\* further next() and prev() calls until reset() or a seek.
C13_AsStated ==
    [][it.err = "Error" /\ lastop'.op \in {"next", "prev"}
           => it'.panicked \/ ~Valid(it')]_vars

\* C13's failing case: seek_to_first has failed to load its block while the
\* iterator still holds the block iterator of an earlier block, which the
\* next call steps
C13_StaleBlockIterator ==
    /\ lastop.op = "seek_to_first" /\ it.err = "Error"
    /\ it.block_iterator # NoBlockIterator
    /\ it.block_iterator.data # <<>>
    /\ Valid(NextInner(it))

-----------------------------------------------------------------------------
(* The block iterator's specification: one BlockIterator, held in `it`,     *)
(* called through its methods in any order on the blocks of the builder.    *)

\* the blocks the builder makes of at most MaxTableKeys stored keys
BlockPool == {t.blocks[1] : t \in {x \in TablePool : Len(x.blocks) = 1}}

\* how far past either end of its block the model lets next() and prev() push
\* idx
MaxPastEnd == 2

InitSpecBlock ==
    /\ \E b \in BlockPool : it = NewBlockIterator(b)
    /\ lastop = [op |-> "new", key |-> <<>>]
    /\ IdleLevels /\ IdleIds /\ IdleWal

BlockCall(op, key, result) ==
    /\ lastop.op # "panic"
    /\ it' = result
    /\ lastop' = [op |-> op, key |-> key]
    /\ UNCHANGED <<levelVars, idVars, walVars>>

BSetBlock == \E b \in BlockPool : BlockCall("set_block", <<>>, SetBlock(it, b))
BSeek == \E k \in SeekKeys : BlockCall("seek", k, BlockSeek(it, k, "Origin"))
BSeekCurrent ==
    \E k \in SeekKeys : BlockCall("seek_current", k, BlockSeek(it, k, "Current"))
BSeekToFirst == BlockCall("seek_to_first", <<>>, BlockSeekToFirst(it))
BSeekToLast == BlockCall("seek_to_last", <<>>, BlockSeekToLast(it))
\* prev(): below usize::MAX the idx keeps falling, by at most MaxPastEnd here
BPrev ==
    /\ it.idx > UsizeMax - MaxPastEnd
    /\ BlockCall("prev", <<>>, BlockPrev(it))

\* next(): idx + 1 wraps from usize::MAX to 0 in a build without overflow
\* checks
BNext ==
    /\ it.idx < Len(it.block) + MaxPastEnd
    /\ BlockCall("next", <<>>, BlockNext(it))

\* next(): idx + 1 panics at usize::MAX in a build with overflow checks
BNextOverflow ==
    /\ it.idx = UsizeMax
    /\ BlockCall("panic", <<>>, it)

NextBlock ==
    \/ BSetBlock \/ BSeek \/ BSeekCurrent \/ BSeekToFirst \/ BSeekToLast
    \/ BPrev \/ BNext \/ BNextOverflow

SpecBlock == InitSpecBlock /\ [][NextBlock]_vars

-----------------------------------------------------------------------------
(* Properties of the block iterator *)

\* the key buffer and perv_overlap are those of entry idx of the block
KeyOfEntry ==
    /\ it.idx >= 0 /\ it.idx < Len(it.block)
    /\ it.key = SubSeq(it.base_key, 1, it.block[it.idx + 1].overlap)
                    \o it.block[it.idx + 1].diff
    /\ it.key = EntryKey(it.block, it.idx + 1)
    /\ it.perv_overlap = it.block[it.idx + 1].overlap
    /\ it.val = it.block[it.idx + 1].val

\* C19 as stated: after any sequence of BlockIterator operations, whenever
\* err is None the key buffer equals base_key[0..overlap] ++ diff of entry
\* idx and perv_overlap equals the overlap of entry idx.
C19_AsStated == it.err = "None" => KeyOfEntry

\* C19 amended: after any sequence of BlockIterator operations of which the
\* last is not new or set_block (which leave err = None with an empty key
\* buffer), whenever err is None the key buffer equals base_key[0..overlap]
\* ++ diff of entry idx and perv_overlap equals the overlap of entry idx,
\* regardless of the entries visited before.
C19_KeyReconstruction ==
    it.err = "None" /\ lastop.op \notin {"new", "set_block"} => KeyOfEntry

\* C19's case: the iterator stands on an entry whose overlap is larger than
\* the overlap of the entry it visited before, reached by a step backwards
C19_OverlapGrows ==
    /\ lastop.op = "prev" /\ it.err = "None"
    /\ it.idx + 2 <= Len(it.block)
    /\ it.block[it.idx + 1].overlap > it.block[it.idx + 2].overlap
    /\ it.block[it.idx + 2].overlap > 0
    /\ KeyOfEntry

\* the entries (0-based) of the iterator's block whose key is not below t
NotBelow(t) ==
    {e \in 0..(Len(it.block) - 1) : CompareKey(EntryKey(it.block, e + 1), t) # -1}

\* C20: after seek(t, Origin) on a sorted block, either the iterator is
\* invalid with EOF and every key of the block is below t, or key() is equal
\* to or greater than t, no earlier entry is, and idx, key and val are those
\* of that entry, not those of the last entry the binary search probed.
C20_BlockSeekLaw ==
    lastop.op = "seek" =>
        IF NotBelow(lastop.key) = {}
        THEN it.err = "EOF" /\ it.idx = Len(it.block)
        ELSE /\ it.err = "None"
             /\ it.idx \in NotBelow(lastop.key)
             /\ \A e \in NotBelow(lastop.key) : it.idx <= e
             /\ KeyOfEntry

\* C20's case: a block of three entries all below t, and the seek ended with
\* EOF past the last entry
C20_AllBelow ==
    /\ lastop.op = "seek" /\ Len(it.block) = 3
    /\ NotBelow(lastop.key) = {}
    /\ it.err = "EOF"

-----------------------------------------------------------------------------
(* The specification of the log used as a value log: a newly created Wal    *)
(* is written, read, truncated, resized, dropped and opened again.  The     *)
(* file record carries len, the length of the file on disk; file.bytes is   *)
(* the mapping while the Wal is open and the bytes on disk while it is not. *)

\* the length of a short range of the log
ShortLen == 7

\* the entries written
OpsEntries ==
    {MkEntry(0, 0, 0, <<97>>, <<1>>), MkEntry(1, 0, 200, <<98, 99>>, <<2>>)}

\* the offsets, lengths and sizes the callers pass
OpsSizes == {0, ShortLen, 2 * ValueLogFileSize, 2 * ValueLogFileSize + 1}

\* the state after Wal::open of a path with no file
InitSpecOps ==
    /\ file = [exists |-> TRUE,
               bytes |-> ZeroNextEntry(Zeroes(2 * ValueLogFileSize), 0),
               cut |-> FALSE, torn |-> FALSE, len |-> 2 * ValueLogFileSize]
    /\ wal = [NoWal EXCEPT !.state = "open", !.size = 2 * ValueLogFileSize]
    /\ written = <<>> /\ witer = NoIter
    /\ it = <<>>
    /\ lastop = [op |-> "open", arg |-> <<>>, out |-> [ok |-> TRUE]]
    /\ IdleLevels /\ IdleIds

\* the state a call found
Pre == [file |-> file, wal |-> wal]

OpsWrite ==
    /\ \E e \in OpsEntries :
           /\ WriteEntry(e)
           /\ lastop' = [op |-> "write_entry", arg |-> <<e>>,
                         out |-> [ok |-> wal'.state = "open", pre |-> Pre]]
    /\ UNCHANGED <<it, levelVars, idVars>>

OpsRead ==
    /\ wal.state = "open"
    /\ \E offset \in OpsSizes \cup {1}, len \in OpsSizes \cup {1} :
           lastop' = [op |-> "read", arg |-> <<offset, len>>,
                      out |-> WalRead(wal, file.bytes, offset, len)]
    /\ UNCHANGED <<file, wal, written, witer, it, levelVars, idVars>>

OpsTruncate ==
    /\ wal.state = "open"
    /\ \E end \in OpsSizes : WalTruncate("truncate", end, <<>>)
    /\ UNCHANGED <<written, witer, it, levelVars, idVars>>

OpsDoneWriting ==
    /\ wal.state = "open"
    /\ \E offset \in OpsSizes, sync_writes \in BOOLEAN :
           WalDoneWriting(offset, sync_writes)
    /\ UNCHANGED <<written, witer, it, levelVars, idVars>>

OpsSetSize ==
    /\ wal.state = "open"
    /\ \E size \in OpsSizes :
           /\ WalSetSize(size)
           /\ lastop' = [op |-> "set_size", arg |-> <<size>>, out |-> [ok |-> TRUE]]
    /\ UNCHANGED <<file, written, witer, it, levelVars, idVars>>

OpsSetLen ==
    /\ wal.state = "open"
    /\ \E len \in OpsSizes :
           /\ WalSetLen(len)
           /\ lastop' = [op |-> "set_len", arg |-> <<len>>, out |-> [ok |-> TRUE]]
    /\ UNCHANGED <<wal, written, witer, it, levelVars, idVars>>

\* the Wal is dropped: the mapping is released and the file keeps its length
OpsDrop ==
    /\ wal.state = "open"
    /\ wal' = NoWal
    /\ file' = [file EXCEPT !.bytes = OnDisk(@, file.len)]
    /\ lastop' = [op |-> "drop", arg |-> <<>>, out |-> [ok |-> TRUE]]
    /\ UNCHANGED <<written, witer, it, levelVars, idVars>>

\* Wal::open of the file a dropped Wal has left
OpsOpen ==
    /\ wal.state = "closed"
    /\ WalOpen
    /\ lastop' = [op |-> "open", arg |-> <<>>, out |-> [ok |-> wal'.state = "open"]]
    /\ UNCHANGED <<it, levelVars, idVars>>

NextOps ==
    \/ OpsWrite \/ OpsRead \/ OpsTruncate \/ OpsDoneWriting
    \/ OpsSetSize \/ OpsSetLen \/ OpsDrop \/ OpsOpen

SpecOps == InitSpecOps /\ [][NextOps]_vars

-----------------------------------------------------------------------------
(* Properties of the log used as a value log *)

\* the three conditions of a read of len bytes at offset
ReadInRange(offset, len) ==
    /\ offset < Len(file.bytes)
    /\ offset + len <= Len(file.bytes)
    /\ offset + len <= wal.size

\* the answer a read of len bytes at offset must give in the state after it
ReadAnswer(out, offset, len) ==
    /\ out.ok <=> ReadInRange(offset, len)
    /\ out.ok => /\ out.bytes = SubSeq(file.bytes, offset + 1, offset + len)
                 /\ Len(out.bytes) = len
                 /\ offset + len <= wal.size
    /\ ~out.ok => out.err = "LogRead"

\* C14: read(ValuePointer{offset, len}) succeeds exactly when offset < mmap
\* length, offset + len <= mmap length and offset + len <= size, and returns
\* a copy of mmap[offset, offset + len); otherwise it fails with LogRead; it
\* changes no state of the log either way, so after any sequence of
\* write_entry, truncate and set_size a successful read returns no byte at or
\* beyond size.
C14_ReadLaw ==
    [][lastop'.op = "read" =>
           /\ UNCHANGED <<file, wal, written>>
           /\ ReadAnswer(lastop'.out, lastop'.arg[1], lastop'.arg[2])]_vars

\* C14's case: after an entry was written and size was lowered, a read within
\* the mapping is refused because it ends beyond size
C14_RefusedBySize ==
    /\ lastop.op = "read" /\ ~lastop.out.ok
    /\ Len(written) > 0
    /\ lastop.arg[2] > 0
    /\ lastop.arg[1] + lastop.arg[2] <= Len(file.bytes)
    /\ lastop.arg[1] + lastop.arg[2] > wal.size

\* the last call was a truncate or done_writing that returned Ok
Truncated == lastop.op \in {"truncate", "done_writing"} /\ lastop.out.ok

\* C15 as stated: after truncate(end) returns Ok, size() = end and the file
\* length = end, whatever they were before; done_writing(offset) likewise.
C15_AsStated ==
    Truncated => wal.size = lastop.arg[1] /\ file.len = lastop.arg[1]

\* what truncate does: the file has length end afterwards; size is end when
\* the file had another length before, and is left alone when the file had
\* length end already (only metadata was called); done_writing syncs first
\* when sync_writes is set
TruncateLaw ==
    Truncated =>
        /\ file.len = lastop.arg[1]
        /\ "set_len" \in {lastop.out.calls[n] : n \in DOMAIN lastop.out.calls}
               => wal.size = lastop.arg[1]

\* C15's failing case: truncate(end) returned Ok on a file of length end and
\* size is not end
C15_SizeKept ==
    /\ lastop.op = "truncate" /\ lastop.out.ok
    /\ file.len = lastop.arg[1]
    /\ wal.size # lastop.arg[1]

\* the offsets (0-based) of the mapping that a step has changed
Changed == {i \in 0..(Len(file.bytes) - 1) : file'.bytes[i + 1] # file.bytes[i + 1]}

\* a write_entry has returned
Appended == lastop'.op = "write_entry" /\ lastop'.out.ok

\* C16 as stated: write_entry modifies only mmap offsets at or above the
\* pre-call write_at and never modifies a mmap byte below size, so a read of
\* a range below size returns the same bytes after the append as before.
C16_AsStated ==
    [][Appended => \A i \in Changed : i >= wal.write_at /\ i >= wal.size]_vars

\* what write_entry does: it modifies only offsets from the pre-call write_at
\* up to the end of the zeroed sentinel
AppendsFromWriteAt ==
    [][Appended =>
           \A i \in Changed : /\ i >= wal.write_at
                              /\ i < wal'.write_at + MAX_HEADER_SIZE]_vars

\* C16's failing case: a write_entry through a reopened Wal has changed a
\* byte of an entry written before, below the size of the log
C16_Overwritten ==
    /\ lastop.op = "write_entry" /\ lastop.out.ok
    /\ wal.reopened
    /\ \E i \in 1..Len(file.bytes) :
           /\ i <= lastop.out.pre.wal.size
           /\ lastop.out.pre.file.bytes[i] # 0
           /\ file.bytes[i] # lastop.out.pre.file.bytes[i]

-----------------------------------------------------------------------------
(* The header specification: a Header is encoded into an empty BytesMut and *)
(* decoded from the bytes.  `written` holds the header, `file` the buffer   *)
(* and `witer` the outcome of Header::decode.                               *)

\* the headers encoded: field values whose varints take one to five bytes,
\* among them the values of test_header_encode that the model's integers hold
HeaderPool ==
    [key_len : {0, 127, 128, 233333},
     value_len : {0, 2333, 2097152},
     expires_at : {0, 200, 16384, 268435455, 268435456, 2147483647},
     meta : {0, 66}, user_meta : {0, 65}]

InitSpecHeader ==
    /\ \E h \in HeaderPool : written = <<h>>
    /\ file = <<>> /\ witer = <<>> /\ wal = <<>>
    /\ it = <<>>
    /\ lastop = [op |-> "new"]
    /\ IdleLevels /\ IdleIds

\* header.encode(&mut buf) on the empty buffer
HEncode ==
    /\ lastop.op = "new"
    /\ file' = file \o HeaderEncode(written[1])
    /\ lastop' = [op |-> "encode"]
    /\ UNCHANGED <<written, witer, wal, it, levelVars, idVars>>

\* new_header.decode(&mut buf) on the encoded bytes
HDecode ==
    /\ lastop.op = "encode"
    /\ witer' = HeaderDecode(file, 1)
    /\ lastop' = [op |-> "decode"]
    /\ UNCHANGED <<written, file, wal, it, levelVars, idVars>>

NextHeader == HEncode \/ HDecode

SpecHeader == InitSpecHeader /\ [][NextHeader]_vars

\* C18: for every header, encode writes exactly encoded_len() bytes, and
\* decoding these bytes yields a header equal to the original on meta,
\* user_meta, key_len, value_len and expires_at, having read all of them.
C18_HeaderRoundTrip ==
    /\ lastop.op \in {"encode", "decode"} =>
           Len(file) = HeaderEncodedLen(written[1])
    /\ lastop.op = "decode" =>
           /\ witer.err = "None"
           /\ witer.h = written[1]
           /\ witer.pos = Len(file) + 1

\* C18's case: a header with a three-byte key_len, a two-byte value_len and a
\* five-byte expires_at came back from its eleven bytes
C18_LongVarints ==
    /\ lastop.op = "decode"
    /\ written[1].key_len = 233333 /\ written[1].value_len = 2333
    /\ written[1].expires_at = 2147483647
    /\ Len(file) = 2 + 3 + 2 + 5
    /\ witer.err = "None" /\ witer.h = written[1]

-----------------------------------------------------------------------------
(* The merge specification: a MergeIterator over the forward iterators of   *)
(* two tables of a level, the first table having priority, is sought and    *)
(* stepped.  `it` holds the children; lastop.yields lists what the merged   *)
(* cursor stood on since the seek.                                          *)

\* the most keys of a table under the merge iterator
MaxMergeKeys == 2

\* the tables merged: one block that loads, at most MaxMergeKeys keys
MergeTables ==
    {t \in TablePool : /\ t.bad = {} /\ Len(t.blocks) = 1
                       /\ Len(t.blocks[1]) <= MaxMergeKeys}

InitSpecMerge ==
    /\ \E t1 \in MergeTables, t2 \in MergeTables :
           it = <<NewIterator(t1, 0), NewIterator(t2, 0)>>
    /\ lastop = [op |-> "new", key |-> <<>>, yields |-> <<>>]
    /\ IdleLevels /\ IdleIds /\ IdleWal

\* the children positioned on the key k, or on a key sharing its user-key
OnKey(ch, k) == {n \in DOMAIN ch : Valid(ch[n]) /\ IterKey(ch[n]) = k}
OnUserKey(ch, k) == {n \in DOMAIN ch : Valid(ch[n]) /\ SameKey(IterKey(ch[n]), k)}

\* what the merged cursor over the children ch yields with child top on top
YieldOf(ch, top) ==
    [key |-> IterKey(ch[top]), child |-> top,
     on_key |-> OnKey(ch, IterKey(ch[top])),
     on_user_key |-> OnUserKey(ch, IterKey(ch[top]))]

\* the yields so far and what the merged cursor stands on now, if valid
Yielded(yields, ch) ==
    IF MergeTop(ch).valid THEN Append(yields, YieldOf(ch, TopChild(ch))) ELSE yields

MergeCall(op, key, yields, result) ==
    /\ it' = result
    /\ lastop' = [op |-> op, key |-> key, yields |-> Yielded(yields, result)]
    /\ UNCHANGED <<levelVars, idVars, walVars>>

MSeek == \E k \in SeekKeys : MergeCall("seek", k, <<>>, MergeSeekAll(it, k))

MNext ==
    /\ lastop.op # "new"
    /\ MergeTop(it).valid
    /\ MergeCall("next", <<>>, lastop.yields, MergeNext(it, TopChild(it)))

NextMerge == MSeek \/ MNext

SpecMerge == InitSpecMerge /\ [][NextMerge]_vars

-----------------------------------------------------------------------------
(* Properties of the merge iterator *)

\* the smallest member of a non-empty set of child numbers
First(S) == CHOOSE n \in S : \A m \in S : n <= m

-----------------------------------------------------------------------------
(* The block traversal specification: a BlockIterator, held in `it`, over a *)
(* block of the builder or the empty block is positioned by seek_to_first   *)
(* or seek_to_last and stepped by next or prev until a call leaves it       *)
(* invalid.  lastop.seen lists the (key, value) pairs it stood on.          *)

\* the blocks traversed: those of the builder and the block without entries
ScanBlocks == BlockPool \cup {<<>>}

\* the (key, value) pairs seen so far and the pair the iterator stands on now
BlockVisit(seen, bi) ==
    IF bi.err = "None" THEN Append(seen, <<bi.key, bi.val>>) ELSE seen

InitSpecBlockScan ==
    /\ \E b \in ScanBlocks : it = NewBlockIterator(b)
    /\ lastop = [op |-> "new", key |-> <<>>, dir |-> "none", seen |-> <<>>]
    /\ IdleLevels /\ IdleIds /\ IdleWal

BScanStart(op, dir, result) ==
    /\ it' = result
    /\ lastop' = [op |-> op, key |-> <<>>, dir |-> dir,
                  seen |-> BlockVisit(<<>>, result)]
    /\ UNCHANGED <<levelVars, idVars, walVars>>

BScanStep(op, dir, result) ==
    /\ lastop.dir = dir
    /\ it.err = "None"
    /\ it' = result
    /\ lastop' = [lastop EXCEPT !.op = op, !.seen = BlockVisit(@, result)]
    /\ UNCHANGED <<levelVars, idVars, walVars>>

BScanFirst == BScanStart("seek_to_first", "forward", BlockSeekToFirst(it))
BScanLast == BScanStart("seek_to_last", "backward", BlockSeekToLast(it))
BScanNext == BScanStep("next", "forward", BlockNext(it))
BScanPrev == BScanStep("prev", "backward", BlockPrev(it))

NextBlockScan == BScanFirst \/ BScanLast \/ BScanNext \/ BScanPrev

SpecBlockScan == InitSpecBlockScan /\ [][NextBlockScan]_vars

\* the (key, value) pairs the builder put into the block, in order
BlockInput(block) == [e \in 1..Len(block) |-> <<EntryKey(block, e), block[e].val>>]

\* the order in which a traversal in direction dir must yield them
BlockOrder(dir) ==
    IF dir = "forward" THEN BlockInput(it.block) ELSE Reverse(BlockInput(it.block))

\* C21: seek_to_first and repeated next yield exactly the keys and values
\* the block was built from, in order, and then EOF; seek_to_last and
\* repeated prev yield them in reverse order and then EOF; on the empty
\* block seek_to_first and seek_to_last give EOF at once.
C21_BlockTraversal ==
    lastop.dir # "none" =>
        /\ IsPrefix(lastop.seen, BlockOrder(lastop.dir))
        /\ it.err = "None" => lastop.seen # <<>>
        /\ it.err # "None" => /\ it.err = "EOF"
                              /\ lastop.seen = BlockOrder(lastop.dir)
        /\ it.block = <<>> => it.err = "EOF"

\* C21's case: a backward traversal of a block of three entries has yielded
\* all three in reverse order and ended in EOF
C21_ReverseOfThree ==
    /\ lastop.dir = "backward" /\ lastop.op = "prev"
    /\ Len(it.block) = 3
    /\ lastop.seen = Reverse(BlockInput(it.block))
    /\ it.err = "EOF"

-----------------------------------------------------------------------------
(* Properties of the block iterator's moves at the ends of its block *)

\* prev() was called at index 0
PrevAtFirst == lastop'.op = "prev" /\ it.idx = 0

\* next() was called at the last index n - 1 of a block that has entries
NextAtLast == lastop'.op = "next" /\ Len(it.block) > 0 /\ it.idx = Len(it.block) - 1

-----------------------------------------------------------------------------
(* Properties of the log's write position, checked on the value log's       *)
(* specification.                                                           *)

\* the MAX_HEADER_SIZE bytes of the mapping at write_at exist and are zero
SentinelZero ==
    /\ InMmap(file.bytes, wal.write_at, MAX_HEADER_SIZE)
    /\ \A i \in wal.write_at + 1 .. wal.write_at + MAX_HEADER_SIZE : file.bytes[i] = 0

\* the last call was a Wal::open or a write_entry that returned
OpenedOrWritten == lastop.op \in {"open", "write_entry"} /\ lastop.out.ok

\* C23 as stated: after Wal::open (of a new file or of an existing file) and
\* after every write_entry, the MAX_HEADER_SIZE bytes
\* mmap[write_at, write_at + MAX_HEADER_SIZE) are all zero.
C23_AsStated == OpenedOrWritten => SentinelZero

\* what the code keeps: the sentinel is zero after Wal::open of a new file
\* and after every write_entry that returned, through any handle
C23_AfterCreateAndWrite ==
    OpenedOrWritten /\ ~(lastop.op = "open" /\ wal.reopened) => SentinelZero

\* C23's failing case: Wal::open of a file that holds an entry leaves
\* write_at at 0, where the encoded entry starts
C23_EntryAtWriteAt ==
    /\ lastop.op = "open" /\ lastop.out.ok /\ wal.reopened
    /\ wal.write_at = 0
    /\ \E e \in OpsEntries :
           /\ InMmap(file.bytes, 0, Len(EncodeEntry(e)))
           /\ SubSeq(file.bytes, 1, Len(EncodeEntry(e))) = EncodeEntry(e)
    /\ ~SentinelZero

\* C24 as stated: write_at <= size holds in every reachable state of the
\* log, after any sequence of open, write_entry, truncate, done_writing and
\* set_size.
C24_AsStated == wal.state = "open" => wal.write_at <= wal.size

\* C24's failing case: entries were written and a truncate, done_writing or
\* set_size has put size below write_at
C24_SizeBelowWriteAt ==
    /\ wal.state = "open"
    /\ lastop.op \in {"truncate", "done_writing", "set_size"}
    /\ lastop.arg[1] < wal.write_at
    /\ wal.size = lastop.arg[1]
    /\ wal.size < wal.write_at


-----------------------------------------------------------------------------
(* The specification of a log that is written again after it was reopened:  *)
(* a log is created, written, dropped, opened again, written through the    *)
(* new handle and read.  lastop.before lists the entries logged before the  *)
(* latest Wal::open, lastop.after those logged since.                       *)

\* the number of entries logged in a run of the model
MaxLogged == 3

InitSpecReopen ==
    /\ file = NoFile /\ wal = NoWal /\ written = <<>> /\ witer = NoIter
    /\ it = <<>>
    /\ lastop = [op |-> "none", before |-> <<>>, after |-> <<>>]
    /\ IdleLevels /\ IdleIds

\* Wal::open: what was logged so far was logged before this open
ROpen ==
    /\ WalOpen
    /\ lastop' = [op |-> "open", before |-> lastop.before \o lastop.after,
                  after |-> <<>>]
    /\ UNCHANGED <<it, levelVars, idVars>>

\* write_entry through the handle that is open
RWrite ==
    /\ Len(lastop.before) + Len(lastop.after) < MaxLogged
    /\ \E e \in OpsEntries :
           /\ WriteEntry(e)
           /\ lastop' = [lastop EXCEPT
                             !.op = "write_entry",
                             !.after = IF wal'.state = "open"
                                       THEN Append(@, e) ELSE @]
    /\ UNCHANGED <<it, levelVars, idVars>>

RDrop ==
    /\ WalDrop
    /\ lastop' = [lastop EXCEPT !.op = "drop"]
    /\ UNCHANGED <<it, levelVars, idVars>>

RIter ==
    /\ WalIter
    /\ lastop' = [lastop EXCEPT !.op = "iter"]
    /\ UNCHANGED <<it, levelVars, idVars>>

RIterNext ==
    /\ WalNext
    /\ lastop' = [lastop EXCEPT !.op = "next"]
    /\ UNCHANGED <<it, levelVars, idVars>>

NextReopen == ROpen \/ RWrite \/ RDrop \/ RIter \/ RIterNext

SpecReopen == InitSpecReopen /\ [][NextReopen]_vars

-----------------------------------------------------------------------------
(* Properties of the log written after a reopen *)

\* an existing log was opened, one entry was written through the new handle,
\* and an iteration made afterwards has come to its end
WrittenAfterReopen ==
    /\ wal.state = "open" /\ wal.reopened
    /\ Len(lastop.after) = 1
    /\ Finished

\* C25 as stated: reopening an existing log and then calling write_entry
\* does not destroy the entries logged before: an iteration made afterwards
\* yields every entry written before the reopen, in order, followed by the
\* newly written entry.
C25_AsStated ==
    WrittenAfterReopen => witer.out = lastop.before \o lastop.after

\* what the iteration yields instead: once the handle that is open has
\* written, only the entries written through it, the log being written from
\* offset 0 again
YieldsThisHandle ==
    wal.state = "open" /\ Finished /\ Len(lastop.after) > 0 =>
        witer.out = lastop.after /\ witer.end = "None"

\* C25's failing case: an entry was logged before the reopen, and the
\* iteration after reopen and write_entry yields the new entry alone
C25_FirstEntryLost ==
    /\ WrittenAfterReopen
    /\ Len(lastop.before) = 1
    /\ witer.out = lastop.after
    /\ witer.end = "None"


-----------------------------------------------------------------------------
(* The rotation specification: entries are written to a newly created log,  *)
(* done_writing(write_at) is called once, and the log is read through the   *)
(* same handle.  lastop.op stays "done_writing" once the log is rotated.    *)

\* the entries written before the rotation, the zero entry among them
RotateEntries ==
    {MkEntry(0, 0, 0, <<>>, <<>>),
     MkEntry(0, 0, 0, <<97>>, <<1>>),
     MkEntry(0, 0, 200, <<98>>, <<>>)}

\* the state after Wal::open of a path with no file
InitSpecRotate ==
    /\ file = [exists |-> TRUE,
               bytes |-> ZeroNextEntry(Zeroes(2 * ValueLogFileSize), 0),
               cut |-> FALSE, torn |-> FALSE, len |-> 2 * ValueLogFileSize]
    /\ wal = [NoWal EXCEPT !.state = "open", !.size = 2 * ValueLogFileSize]
    /\ written = <<>> /\ witer = NoIter
    /\ it = <<>>
    /\ lastop = [op |-> "open", arg |-> <<>>, out |-> [ok |-> TRUE]]
    /\ IdleLevels /\ IdleIds

\* the log is rotated: done_writing has returned
Rotated == lastop.op = "done_writing"

\* write_entry before the rotation
RotWrite ==
    /\ ~Rotated
    /\ \E e \in RotateEntries : WriteEntry(e)
    /\ lastop' = [op |-> "write_entry", arg |-> <<>>,
                  out |-> [ok |-> wal'.state = "open"]]
    /\ UNCHANGED <<it, levelVars, idVars>>

\* done_writing(write_at), under either setting of opts.sync_writes
RotDoneWriting ==
    /\ wal.state = "open" /\ ~Rotated
    /\ \E sync_writes \in BOOLEAN : WalDoneWriting(wal.write_at, sync_writes)
    /\ witer' = NoIter
    /\ UNCHANGED <<written, it, levelVars, idVars>>

RotIter ==
    /\ WalIter
    /\ UNCHANGED <<it, lastop, levelVars, idVars>>

RotIterNext ==
    /\ WalNext
    /\ UNCHANGED <<it, lastop, levelVars, idVars>>

NextRotate == RotWrite \/ RotDoneWriting \/ RotIter \/ RotIterNext

SpecRotate == InitSpecRotate /\ [][NextRotate]_vars

-----------------------------------------------------------------------------
(* Properties of the rotated log *)

\* C28 as stated: after writing entries E1..En to a newly created log and
\* calling done_writing(write_at), size() equals the total encoded length of
\* E1..En and iter() yields exactly E1..En in order and then None, the
\* cut-off sentinel being treated as clean end-of-log rather than an error.
C28_AsStated ==
    Rotated =>
        /\ wal.size = TotalEncodedLen(written)
        /\ Finished => witer.out = written /\ witer.end = "None"

\* C28 amended: after writing entries E1..En to a newly created log and
\* calling done_writing(write_at), size() and the file's length equal the
\* total encoded length of E1..En; when none of them is the zero entry,
\* iter() yields exactly E1..En in order and then None; when one is, iter()
\* yields the entries before the first zero entry and then None; the
\* iteration never ends in Some(Err).
C28_Rotation ==
    Rotated =>
        /\ wal.size = TotalEncodedLen(written)
        /\ file.len = TotalEncodedLen(written)
        /\ Finished /\ NoZeroEntry => witer.out = written
        /\ Finished =>
               /\ witer.end = "None"
               /\ IsPrefix(witer.out, written)
               /\ Len(witer.out) < Len(written) => IsZero(written[Len(witer.out) + 1])
               /\ \A i \in 1..Len(witer.out) : ~IsZero(written[i])

\* C28's case: two entries, one with a two-byte varint, were written, the
\* log was rotated at write_at, and the iteration has yielded both and has
\* ended at the cut-off sentinel
C28_TwoEntriesRotated ==
    /\ Rotated /\ Finished /\ NoZeroEntry
    /\ Len(written) = 2
    /\ \E i \in 1..2 : written[i].expires_at >= 128
    /\ wal.size = wal.write_at /\ wal.size = TotalEncodedLen(written)
    /\ witer.out = written /\ witer.end = "None"
    /\ witer.pos = wal.size + 1


-----------------------------------------------------------------------------
(* The flush specification: a newly created log is appended to by a caller  *)
(* that writes entries of bounded encoded length and stops as soon as       *)
(* should_flush() is true.                                                  *)

\* opts.value_log_file_size of the log that is flushed
FlushLogFileSize == 28

\* the entries offered to the caller, of encoded lengths 5, 6, 7 and 8
FlushEntries ==
    {MkEntry(0, 0, 0, <<>>, <<>>),
     MkEntry(0, 0, 0, <<>>, <<0>>),
     MkEntry(0, 0, 0, <<97>>, <<1>>),
     MkEntry(0, 0, 200, <<98>>, <<1>>)}

\* the caller's bound on an entry's encoded length
WithinFlushBound(e) == Len(EncodeEntry(e)) <= FlushLogFileSize - MAX_HEADER_SIZE

\* the state after Wal::open of a path with no file
InitSpecFlush ==
    /\ file = [exists |-> TRUE,
               bytes |-> ZeroNextEntry(Zeroes(2 * FlushLogFileSize), 0),
               cut |-> FALSE, torn |-> FALSE]
    /\ wal = [NoWal EXCEPT !.state = "open", !.size = 2 * FlushLogFileSize]
    /\ written = <<>> /\ witer = NoIter
    /\ it = <<>>
    /\ lastop = [op |-> "open", arg |-> <<>>, out |-> [ok |-> TRUE, pre |-> 0]]
    /\ IdleLevels /\ IdleIds

\* the caller appends an entry within the bound while should_flush() is
\* false; out.pre is write_at before the call
FlushWrite ==
    /\ wal.state = "open"
    /\ ~ShouldFlush(wal, FlushLogFileSize)
    /\ \E e \in FlushEntries :
           /\ WithinFlushBound(e)
           /\ WriteEntry(e)
           /\ lastop' = [op |-> "write_entry", arg |-> <<e>>,
                         out |-> [ok |-> wal'.state = "open", pre |-> wal.write_at]]
    /\ UNCHANGED <<it, levelVars, idVars>>

NextFlush == FlushWrite

SpecFlush == InitSpecFlush /\ [][NextFlush]_vars

-----------------------------------------------------------------------------
(* Properties of the flushed log *)

\* C27: on a newly created log, if every entry's encoded length is at most
\* value_log_file_size - MAX_HEADER_SIZE and the caller stops appending as
\* soon as should_flush() is true, every write_entry, the zeroing of the
\* sentinel after it included, stays within the 2 * value_log_file_size
\* bytes of the mapping: no write panics, and the sentinel at write_at ends
\* at or before the end of the mapping.
C27_WriteBounds ==
    /\ wal.state = "open"
    /\ ~file.torn
    /\ Len(file.bytes) = 2 * FlushLogFileSize
    /\ wal.write_at + MAX_HEADER_SIZE <= 2 * FlushLogFileSize
    /\ lastop.op = "write_entry" =>
           /\ lastop.out.ok
           /\ lastop.out.pre <= FlushLogFileSize
           /\ wal.write_at = lastop.out.pre + Len(EncodeEntry(lastop.arg[1]))

\* C27's case: the last write before the flush started at write_at =
\* value_log_file_size with an entry of the largest length allowed, and its
\* sentinel ends with the last byte of the mapping
C27_SentinelAtEnd ==
    /\ lastop.op = "write_entry" /\ lastop.out.ok
    /\ lastop.out.pre = FlushLogFileSize
    /\ Len(EncodeEntry(lastop.arg[1])) = FlushLogFileSize - MAX_HEADER_SIZE
    /\ ShouldFlush(wal, FlushLogFileSize)
    /\ wal.write_at + MAX_HEADER_SIZE = Len(file.bytes)


-----------------------------------------------------------------------------
(* The stall specification: threads call add_l0_table and get on the same   *)
(* controller while the compactor evicts tables from L0.                    *)

InitSpecStall == InitL0 /\ IdleTable /\ IdleIds /\ IdleWal

\* get of the key the L0 tables hold, from level 0 on
StallGet ==
    /\ \E r \in Readers : GetCall(r, KeyWithTs(KeyK, 7), 0)
    /\ UNCHANGED <<tableVars, idVars, walVars>>

NextStall == Add \/ AddStep \/ Evict \/ StallGet \/ GetTakeLock \/ GetConsult

SpecStall == InitSpecStall /\ [][NextStall]_vars

\* a thread that holds a guard keeps running: an adder makes its attempt,
\* and a reader leaves its match (GetConsult is enabled exactly while a
\* reader is under a guard, so this is weak fairness of GetConsult); a
\* thread waiting for a guard gets it when the lock is free again and again;
\* nothing obliges a caller to call or the compactor to evict
FairStall ==
    /\ \A a \in Adders : WF_vars(AddAttempt(a)) /\ SF_vars(AddTakeLock(a))
    /\ []<>(\A r \in Readers : rd[r].pc # "locked")
    /\ SF_vars(GetTakeLock)

FairSpecStall == InitSpecStall /\ [][NextStall]_vars /\ FairStall

-----------------------------------------------------------------------------
(* Properties of the stall *)

\* the L0 write guard is held by an adder exactly while it evaluates the
\* while condition, never while it sleeps or between its attempts
GuardOnlyInCondition ==
    \A a \in Adders : lock[1].writer = a <=> ad[a].pc = "locked"

\* adder a waits for the L0 write guard, reader r for a read guard
AdderWaits(a) == ad[a].pc = "try" /\ ~CanWrite(lock[1])
ReaderWaits(r) ==
    /\ rd[r].pc = "loop" /\ rd[r].level < MaxLevels
    /\ ~CanRead(lock[rd[r].level + 1])

\* every guard is held by a thread that is running under it, in the while
\* condition of add_l0_table or in the match of get, and waits for nothing
HoldersRun ==
    /\ \A l \in 1..MaxLevels :
           /\ lock[l].writer # NoThread =>
                  l = 1 /\ lock[l].writer \in Adders /\ ad[lock[l].writer].pc = "locked"
           /\ \A r \in lock[l].readers : rd[r].pc = "locked" /\ rd[r].level + 1 = l
    /\ \A r \in Readers : Cardinality(ReadHeld(r)) <= 1

\* no deadlock: a thread waits only for a guard that a running thread holds
NoDeadlock ==
    /\ HoldersRun
    /\ \A a \in Adders : AdderWaits(a) =>
           lock[1].writer # NoThread \/ lock[1].readers # {}
    /\ \A r \in Readers : ReaderWaits(r) => lock[rd[r].level + 1].writer # NoThread

\* while every adder inside add_l0_table is asleep or about to try, L0's
\* lock is not held by an adder: a get can take the read guard, and the
\* compactor the write guard once the readers have left
FreeDuringStall ==
    (\A a \in Adders : ad[a].pc # "locked") =>
        /\ CanRead(lock[1])
        /\ lock[1].readers = {} => CanWrite(lock[1])

\* C26: while add_l0_table is stalled it does not hold the L0 write lock
\* between attempts: the write guard is released before each sleep, so a get
\* (L0 read lock) or a compactor (L0 write lock) running at the same time is
\* never blocked for the duration of the stall: every get returns, every
\* adder gets the write guard for its next attempt, and L0's lock is free
\* again and again, also when L0 stays full and the adders stall for ever;
\* no interleaving of add_l0_table and get callers deadlocks.
C26_StallHoldsNoLock ==
    /\ [](GuardOnlyInCondition /\ FreeDuringStall /\ NoDeadlock)
    /\ \A r \in Readers : (rd[r].pc \in {"loop", "locked"}) ~> (rd[r].pc = "done")
    /\ \A a \in Adders : (ad[a].pc = "try") ~> (ad[a].pc = "locked")
    /\ []<>CanWrite(lock[1])

\* C26's case: L0 is full, both adders have been refused, one of them is
\* asleep, and a get holds the L0 read guard
C26_GetDuringStall ==
    /\ L0Full
    /\ \A a \in Adders : InCall(a) /\ ad[a].stalled
    /\ \E a \in Adders : ad[a].pc = "sleep"
    /\ \E r \in Readers : r \in lock[1].readers /\ rd[r].pc = "locked"


=============================================================================
